---- MODULE Spec2Model ----
(***************************************************************************)
(* State-machine model of the stateless authentication subsystem of        *)
(* fin-stack-server: credential hashing, JWT issue/validate, the           *)
(* register / login / me flows of AuthService with their controllers, and  *)
(* the bearer middleware that gates the /incomes and /expenses scopes.     *)
(***************************************************************************)
EXTENDS Integers, Sequences, FiniteSets, TLC

VARIABLES
    jwt_secret,  \* value of the JWT_SECRET environment variable of the process
    now,         \* wall clock, seconds since the epoch (chrono::Utc::now)
    ticks,       \* number of clock advances taken so far
    users,       \* rows of the users table
    ledger,      \* rows of the incomes and of the expenses table
    wallet,      \* tokens that clients hold from earlier responses
    pc,          \* per worker: position of the request it is handling
    loc,         \* per worker: locals of the call in flight
    ext,         \* per worker: the request's extensions (per-request context)
    ops,         \* per worker: steps the current call has executed, in order
    resp         \* per worker: outcome of the last completed call

vars == <<jwt_secret, now, ticks, users, ledger, wallet, pc, loc, ext, ops, resp>>

-----------------------------------------------------------------------------
(* Bounds of the model *)

MaxWorkers == 2      \* request-handling workers that can run concurrently
MaxTicks == 3        \* clock advances in one behaviour
MaxWallet == 1       \* tokens the clients keep
MaxIds == 2          \* distinct values Uuid::new_v4 can return
MaxRows == 1         \* rows of the incomes and expenses tables together
Epoch == 1700000000  \* clock value when the server starts

(* Program constants *)

Leeway == 60         \* jsonwebtoken's Validation::new default leeway, seconds
DefaultCost == 12    \* bcrypt::DEFAULT_COST
BcryptMaxLen == 72   \* bytes of the password that bcrypt's hash() uses
TokenTtl == 24 * 3600
FallbackSecret == "your-secret-key"

DefaultRetries == 5   \* max_retries that create_connection_pool passes on
RetryDelay == 5      \* seconds slept between two build attempts

Workers == 1..MaxWorkers
None == [none |-> TRUE]

Ok(v) == [ok |-> TRUE, val |-> v]
Err(e) == [ok |-> FALSE, err |-> e]

-----------------------------------------------------------------------------
(* Uuid: 32 hex nibbles; to_string is the hyphenated lower-case form. *)

HexLower == <<"0","1","2","3","4","5","6","7","8","9","a","b","c","d","e","f">>
HexUpper == <<"0","1","2","3","4","5","6","7","8","9","A","B","C","D","E","F">>
HyphenAt == {9, 14, 19, 24}

\* the i-th value the random generator can return (version nibble 4)
NewV4(i) ==
    [k \in 1..32 |-> IF k = 13 THEN 4
                     ELSE IF k = 17 THEN 8 + (i % 4)
                     ELSE (i * k + k) % 16]

UuidPool == { NewV4(i) : i \in 1..MaxIds }

NibbleIndex(p) == p - Cardinality({h \in HyphenAt : h < p})
\* the position of the k-th hex digit in the hyphenated form
NibblePos(k) == k + Cardinality({j \in {8, 12, 16, 20} : j < k})

UuidToString(u) ==
    [p \in 1..36 |-> IF p \in HyphenAt THEN "-" ELSE HexLower[u[NibbleIndex(p)] + 1]]

\* the hex digits in either case, and the value of each
HexChars == { HexLower[n] : n \in 1..16 } \cup { HexUpper[n] : n \in 1..16 }
HexValue ==
    [c \in HexChars |-> (CHOOSE n \in 1..16 : HexLower[n] = c \/ HexUpper[n] = c) - 1]

IsHex(c) == c \in HexChars
HexVal(c) == HexValue[c]

\* mutant: only the simple form, 32 digits without hyphens, is accepted
UuidParseStrSimpleOnly(s) ==
    IF Len(s) = 32 /\ \A p \in 1..32 : IsHex(s[p])
    THEN Ok([k \in 1..32 |-> HexVal(s[k])])
    ELSE Err("InvalidUuid")

UrnPrefix == <<"u","r","n",":","u","u","i","d",":">>

\* parse_hyphenated: 36 characters, hyphens at 9, 14, 19, 24, hex digits elsewhere
ParseHyphenated(s) ==
    IF /\ Len(s) = 36
       /\ \A p \in 1..36 : IF p \in HyphenAt THEN s[p] = "-" ELSE IsHex(s[p])
    THEN Ok([k \in 1..32 |-> HexVal(s[NibblePos(k)])])
    ELSE Err("InvalidUuid")

\* Uuid::parse_str: the simple form (32 digits), the hyphenated form (36), the
\* braced form "{" hyphenated "}" (38) and the URN form "urn:uuid:" hyphenated (45)
UuidParseStr(s) ==
    IF Len(s) = 32
    THEN IF \A p \in 1..32 : IsHex(s[p])
         THEN Ok([k \in 1..32 |-> HexVal(s[k])])
         ELSE Err("InvalidUuid")
    ELSE IF Len(s) = 36 THEN ParseHyphenated(s)
    ELSE IF Len(s) = 38 /\ s[1] = "{" /\ s[38] = "}"
    THEN ParseHyphenated(SubSeq(s, 2, 37))
    ELSE IF Len(s) = 45 /\ SubSeq(s, 1, 9) = UrnPrefix
    THEN ParseHyphenated(SubSeq(s, 10, 45))
    ELSE Err("InvalidUuid")

-----------------------------------------------------------------------------
(* Credential hasher: bcrypt with DEFAULT_COST. *)

Pw(c, n) == [i \in 1..n |-> IF i = n THEN c ELSE "x"]
Passwords == { Pw("a", 8), Pw("a", BcryptMaxLen + 1), Pw("b", BcryptMaxLen + 1) }
Salts == {"s1"}

Truncate(p) == IF Len(p) > BcryptMaxLen THEN SubSeq(p, 1, BcryptMaxLen) ELSE p

Bcrypt(p, salt, cost) ==
    [fmt |-> "2b", cost |-> cost, salt |-> salt, digest |-> <<Truncate(p), salt, cost>>]

\* rng_ok: the operating system's random source delivered the salt
hash_password(password, salt, rng_ok) ==
    IF rng_ok THEN Ok(Bcrypt(password, salt, DefaultCost)) ELSE Err("BcryptError")

\* mutant: a non-match is reported as an error instead of Ok(false)
verify_password_strict(password, hash) ==
    IF hash.fmt # "2b" \/ Bcrypt(password, hash.salt, hash.cost).digest # hash.digest
    THEN Err("BcryptError")
    ELSE Ok(TRUE)

verify_password(password, hash) ==
    IF hash.fmt # "2b" THEN Err("BcryptError")
    ELSE Ok(Bcrypt(password, hash.salt, hash.cost).digest = hash.digest)

-----------------------------------------------------------------------------
(* Token codec: jsonwebtoken encode / decode with HS256. *)

ServerSecret == "0123456789abcdef0123456789abcdef"
OtherSecrets == {"ffffffffffffffffffffffffffffffff", FallbackSecret}

\* env::var("JWT_SECRET").unwrap_or_else(|_| "your-secret-key")
\* e: the variable's values, {} when it is not set
GetSecret(e) == IF e = {} THEN FallbackSecret ELSE CHOOSE s \in e : TRUE

\* an HMAC tag: equal tags iff equal key and equal signed message
HmacSha256(key, header, claims) == [key |-> key, header |-> header, claims |-> claims]

HeaderDefault == [alg |-> "HS256", typ |-> "JWT"]

\* mutant: the subject is written in the simple form, without hyphens
ClaimsNewSimple(user_id, email, exp, t) ==
    [sub |-> [k \in 1..32 |-> HexLower[user_id[k] + 1]], email |-> email,
     exp |-> exp, iat |-> t]

ClaimsNew(user_id, email, exp, t) ==
    [sub |-> UuidToString(user_id), email |-> email, exp |-> exp, iat |-> t]

Encode(header, claims, key) ==
    [parts |-> 3, header |-> header, claims |-> claims,
     sig |-> HmacSha256(key, header, claims)]

\* t1: the clock when generate_token reads it, t2: when Claims::new reads it
generate_token(user, e, t1, t2, enc_ok) ==
    IF enc_ok
    THEN Ok(Encode(HeaderDefault, ClaimsNew(user.id, user.email, t1 + TokenTtl, t2),
                   GetSecret(e)))
    ELSE Err("JwtError")

ValidationNew(alg) == [algorithms |-> {alg}, leeway |-> Leeway, validate_exp |-> TRUE]

\* mutant: the signature is not verified
DecodeUnverified(token, key, validation, t) ==
    IF token.parts # 3 THEN Err("InvalidToken")
    ELSE IF token.header.alg \notin validation.algorithms THEN Err("InvalidAlgorithm")
    ELSE IF validation.validate_exp /\ token.claims.exp < t - validation.leeway
         THEN Err("ExpiredSignature")
    ELSE Ok(token.claims)

Decode(token, key, validation, t) ==
    IF token.parts # 3 THEN Err("InvalidToken")
    ELSE IF token.header.alg \notin validation.algorithms THEN Err("InvalidAlgorithm")
    ELSE IF token.sig # HmacSha256(key, token.header, token.claims)
         THEN Err("InvalidSignature")
    ELSE IF validation.validate_exp /\ token.claims.exp < t - validation.leeway
         THEN Err("ExpiredSignature")
    ELSE Ok(token.claims)

validate_token(token, e, t) == Decode(token, GetSecret(e), ValidationNew("HS256"), t)

-----------------------------------------------------------------------------
(* What a client can present as a bearer token. *)

Garbage == [parts |-> 1, header |-> HeaderDefault, claims |-> None, sig |-> None]
FarFuture(c) == [c EXCEPT !.exp = c.exp + 3650 * TokenTtl]

\* the same claims, or claims with a far-future expiry, signed with another key
Forged(tok) ==
    { Encode(HeaderDefault, c, k) : c \in {tok.claims, FarFuture(tok.claims)},
                                    k \in OtherSecrets }
\* the payload rewritten under the original signature
Tampered(tok) == { [tok EXCEPT !.claims = FarFuture(tok.claims)] }
\* the header rewritten to another algorithm
Downgraded(tok) == { [tok EXCEPT !.header.alg = "none", !.sig = None] }

\* a token signed with the server's secret by another holder of it, whose
\* subject is not the string form of a uuid
Unparsable ==
    Encode(HeaderDefault,
           [sub |-> <<"4", "2">>, email |-> "john@example.com",
            exp |-> Epoch + 3650 * TokenTtl, iat |-> Epoch],
           ServerSecret)

\* tokens signed the same way whose subject is the braced or the URN spelling
\* of the first id the generator returns
Respelled ==
    { Encode(HeaderDefault,
             [sub |-> sub, email |-> "john@example.com",
              exp |-> Epoch + 3650 * TokenTtl, iat |-> Epoch],
             ServerSecret) :
        sub \in { <<"{">> \o UuidToString(NewV4(1)) \o <<"}">>,
                  UrnPrefix \o UuidToString(NewV4(1)) } }

Presentable ==
    wallet \cup {Garbage, Unparsable}
           \cup UNION { Forged(t) \cup Tampered(t) \cup Downgraded(t) : t \in wallet }

CorrectlySigned(tok, e) ==
    /\ tok.parts = 3
    /\ tok.sig = HmacSha256(GetSecret(e), tok.header, tok.claims)

\* what the client does with a token it is handed: drop it, keep it, swap it in
Keep(tok) ==
    {wallet}
    \cup (IF Cardinality(wallet) < MaxWallet THEN {wallet \cup {tok}} ELSE {})
    \cup { (wallet \ {old}) \cup {tok} : old \in wallet }

-----------------------------------------------------------------------------
(* The users table and the records of the auth flows. *)

Emails == {"john@example.com", "jane@example.com"}
FirstNames == {"John"}
LastNames == {"Doe"}

RegisterRequests ==
    [first_name : FirstNames, last_name : LastNames, email : Emails,
     password : Passwords, confirm_password : Passwords]
LoginRequests == [email : Emails, password : Passwords]

AuthError(message, code) == [message |-> message, code |-> code]

\* NewUser::new with the id and the clock value it draws
NewUser(id, first_name, last_name, email, password, t) ==
    [id |-> id, first_name |-> first_name, last_name |-> last_name, email |-> email,
     password |-> password, created_at |-> t, updated_at |-> t]

UserInfo(user) ==
    [id |-> user.id, first_name |-> user.first_name, last_name |-> user.last_name,
     email |-> user.email]

\* mutant: the envelope carries the whole user record
TokenResponseWholeUser(token, user) ==
    [token |-> token, token_type |-> "Bearer", expires_in |-> 24 * 3600, user |-> user]

TokenResponse(token, user) ==
    [token |-> token, token_type |-> "Bearer", expires_in |-> 24 * 3600,
     user |-> UserInfo(user)]

\* mutant: the filter compares another column with the email
FindByEmailWrongColumn(table, email) ==
    IF \E u \in table : u.first_name = email
    THEN {CHOOSE u \in table : u.first_name = email} ELSE {}

\* users::table.filter(users::email.eq(email)).first().optional()
FindByEmail(table, email) ==
    IF \E u \in table : u.email = email
    THEN {CHOOSE u \in table : u.email = email} ELSE {}

\* mutant: the query has no filter on the id and returns the first row
FindByIdUnfiltered(table, id) ==
    IF table # {} THEN {CHOOSE u \in table : TRUE} ELSE {}

\* users::table.find(id).first().optional()
FindById(table, id) ==
    IF \E u \in table : u.id = id THEN {CHOOSE u \in table : u.id = id} ELSE {}

\* the primary key of the users table
UsersPkeyViolated(table, row) == \E u \in table : u.id = row.id

\* mutant: the users table has no unique index on email
UsersEmailKeyAbsent(table, row) == FALSE

\* the unique index on users.email that the migrations create
UsersEmailKeyViolated(table, row) == \E u \in table : u.email = row.email

\* diesel::insert_into(users::table).values(&new_user).get_result(conn)
InsertUser(table, row, db_ok) ==
    IF ~db_ok THEN Err("DatabaseError")
    ELSE IF UsersPkeyViolated(table, row) \/ UsersEmailKeyViolated(table, row)
         THEN Err("UniqueViolation")
    ELSE Ok(row)

-----------------------------------------------------------------------------
(* AuthService: each flow returns its Result and the steps it executed. *)

Out(r, steps) == [r |-> r, ops |-> steps]

\* mutant: the lookup by email runs before the passwords are compared
register_check_lookup_first(table, data, conn_ok, query_ok) ==
    IF ~conn_ok
    THEN Out(Err(AuthError("Database connection failed", "DB_CONNECTION_ERROR")),
             <<"conn">>)
    ELSE IF ~query_ok
    THEN Out(Err(AuthError("Database query failed", "DB_QUERY_ERROR")),
             <<"conn", "lookup">>)
    ELSE IF FindByEmail(table, data.email) # {}
    THEN Out(Err(AuthError("Email already exists", "EMAIL_EXISTS")),
             <<"conn", "lookup">>)
    ELSE IF data.password # data.confirm_password
    THEN Out(Err(AuthError("Passwords do not match", "PASSWORD_MISMATCH")),
             <<"conn", "lookup", "compare">>)
    ELSE Out(Ok(data), <<"conn", "lookup", "compare">>)

\* mutant: the passwords are compared before the connection is acquired
register_check_compare_first(table, data, conn_ok, query_ok) ==
    IF data.password # data.confirm_password
    THEN Out(Err(AuthError("Passwords do not match", "PASSWORD_MISMATCH")),
             <<"compare">>)
    ELSE IF ~conn_ok
    THEN Out(Err(AuthError("Database connection failed", "DB_CONNECTION_ERROR")),
             <<"compare", "conn">>)
    ELSE IF ~query_ok
    THEN Out(Err(AuthError("Database query failed", "DB_QUERY_ERROR")),
             <<"compare", "conn", "lookup">>)
    ELSE IF FindByEmail(table, data.email) # {}
    THEN Out(Err(AuthError("Email already exists", "EMAIL_EXISTS")),
             <<"compare", "conn", "lookup">>)
    ELSE Out(Ok(data), <<"compare", "conn", "lookup">>)

\* register_user up to and including the lookup by email
register_check(table, data, conn_ok, query_ok) ==
    IF ~conn_ok
    THEN Out(Err(AuthError("Database connection failed", "DB_CONNECTION_ERROR")),
             <<"conn">>)
    ELSE IF data.password # data.confirm_password
    THEN Out(Err(AuthError("Passwords do not match", "PASSWORD_MISMATCH")),
             <<"conn", "compare">>)
    ELSE IF ~query_ok
    THEN Out(Err(AuthError("Database query failed", "DB_QUERY_ERROR")),
             <<"conn", "compare", "lookup">>)
    ELSE IF FindByEmail(table, data.email) # {}
    THEN Out(Err(AuthError("Email already exists", "EMAIL_EXISTS")),
             <<"conn", "compare", "lookup">>)
    ELSE Out(Ok(data), <<"conn", "compare", "lookup">>)

\* register_user: the hashing and the insert; env: what the environment
\* delivers (salt, rng_ok, id, insert_ok, and the clock read t0 of NewUser::new).
\* The result carries the users table the statement leaves behind.
register_insert(table, data, env) ==
    LET hashed == hash_password(data.password, env.salt, env.rng_ok) IN
    IF ~hashed.ok
    THEN [r |-> Err(AuthError("Password hashing failed", "HASH_ERROR")),
          ops |-> <<"hash">>, table |-> table]
    ELSE
    LET new_user == NewUser(env.id, data.first_name, data.last_name, data.email,
                            hashed.val, env.t0)
        inserted == InsertUser(table, new_user, env.insert_ok)
    IN  IF ~inserted.ok
        THEN [r |-> Err(AuthError("Failed to create user", "USER_CREATION_ERROR")),
              ops |-> <<"hash", "insert">>, table |-> table]
        ELSE [r |-> Ok(inserted.val), ops |-> <<"hash", "insert">>,
              table |-> table \cup {inserted.val}]

\* register_user: the token for the row the insert returned; env: enc_ok and
\* the clock reads t1 <= t2 of generate_token and Claims::new
register_token(user, e, env) ==
    LET token == generate_token(user, e, env.t1, env.t2, env.enc_ok) IN
    IF ~token.ok
    THEN Out(Err(AuthError("Token generation failed", "TOKEN_ERROR")), <<"token">>)
    ELSE Out(Ok(TokenResponse(token.val, user)), <<"token">>)

\* register_user from the hashing on, with the clock reads t0 <= t1 <= t2
register_create(table, data, e, env) ==
    LET ins == register_insert(table, data, env) IN
    IF ~ins.r.ok THEN ins
    ELSE LET tk == register_token(ins.r.val, e, env) IN
         [r |-> tk.r, ops |-> ins.ops \o tk.ops, table |-> ins.table]

\* mutant: the outcome of the verification is not looked at
login_user_ignores_mismatch(table, data, e, env) ==
    IF ~env.conn_ok
    THEN Out(Err(AuthError("Database connection failed", "DB_CONNECTION_ERROR")),
             <<"conn">>)
    ELSE IF ~env.query_ok
    THEN Out(Err(AuthError("Database query failed", "DB_QUERY_ERROR")),
             <<"conn", "lookup">>)
    ELSE
    LET found == FindByEmail(table, data.email) IN
    IF found = {}
    THEN Out(Err(AuthError("Invalid credentials", "INVALID_CREDENTIALS")),
             <<"conn", "lookup">>)
    ELSE
    LET user == CHOOSE u \in found : TRUE
        is_valid == verify_password(data.password, user.password)
    IN  IF ~is_valid.ok
        THEN Out(Err(AuthError("Password verification failed", "VERIFICATION_ERROR")),
                 <<"conn", "lookup", "verify">>)
        ELSE
        LET token == generate_token(user, e, env.t1, env.t2, env.enc_ok) IN
        IF ~token.ok
        THEN Out(Err(AuthError("Token generation failed", "TOKEN_ERROR")),
                 <<"conn", "lookup", "verify", "token">>)
        ELSE Out(Ok(TokenResponse(token.val, user)),
                 <<"conn", "lookup", "verify", "token">>)

login_user(table, data, e, env) ==
    IF ~env.conn_ok
    THEN Out(Err(AuthError("Database connection failed", "DB_CONNECTION_ERROR")),
             <<"conn">>)
    ELSE IF ~env.query_ok
    THEN Out(Err(AuthError("Database query failed", "DB_QUERY_ERROR")),
             <<"conn", "lookup">>)
    ELSE
    LET found == FindByEmail(table, data.email) IN
    IF found = {}
    THEN Out(Err(AuthError("Invalid credentials", "INVALID_CREDENTIALS")),
             <<"conn", "lookup">>)
    ELSE
    LET user == CHOOSE u \in found : TRUE
        is_valid == verify_password(data.password, user.password)
    IN  IF ~is_valid.ok
        THEN Out(Err(AuthError("Password verification failed", "VERIFICATION_ERROR")),
                 <<"conn", "lookup", "verify">>)
        ELSE IF ~is_valid.val
        THEN Out(Err(AuthError("Invalid credentials", "INVALID_CREDENTIALS")),
                 <<"conn", "lookup", "verify">>)
        ELSE
        LET token == generate_token(user, e, env.t1, env.t2, env.enc_ok) IN
        IF ~token.ok
        THEN Out(Err(AuthError("Token generation failed", "TOKEN_ERROR")),
                 <<"conn", "lookup", "verify", "token">>)
        ELSE Out(Ok(TokenResponse(token.val, user)),
                 <<"conn", "lookup", "verify", "token">>)

-----------------------------------------------------------------------------
(* The Authorization header: absent ({}), or one value made of the          *)
(* characters before the credential and the credential itself.              *)

BearerPrefix == <<"B", "e", "a", "r", "e", "r", " ">>

HeaderValue(ascii, chars, cred) == [ascii |-> ascii, chars |-> chars, cred |-> cred]

\* mutant: the prefix is compared without regard to case
StartsWithAnyCase(s, prefix) ==
    /\ Len(s) >= Len(prefix)
    /\ \A i \in 1..Len(prefix) :
          (IF s[i] = "B" THEN "b" ELSE s[i]) = (IF prefix[i] = "B" THEN "b" ELSE prefix[i])

StartsWith(s, prefix) ==
    Len(s) >= Len(prefix) /\ SubSeq(s, 1, Len(prefix)) = prefix

\* the text that follows the first n characters of the header value
After(h, n) ==
    IF Len(h.chars) = n THEN h.cred ELSE Garbage

\* other ways a header value can begin
OtherSchemes ==
    { <<"T", "o", "k", "e", "n", " ">>,
      <<"b", "e", "a", "r", "e", "r", " ">> }

\* a request whose Authorization header is "Bearer " and then the token
BearerRequest(tok) == [authorization |-> {HeaderValue(TRUE, BearerPrefix, tok)}]

Requests ==
    { [authorization |-> {}] }
    \cup { [authorization |-> {HeaderValue(FALSE, sc, Garbage)}] :
             sc \in {BearerPrefix, <<"T", "o", "k", "e", "n", " ">>} }
    \cup { [authorization |-> {HeaderValue(TRUE, sc, Garbage)}] : sc \in OtherSchemes }
    \cup { [authorization |-> {HeaderValue(TRUE, BearerPrefix, tok)}] :
             tok \in Presentable }

\* the requests sent to /me: the subject is read on this route only
MeRequests ==
    Requests \cup { [authorization |-> {HeaderValue(TRUE, BearerPrefix, tok)}] :
                      tok \in Respelled }

\* mutant: a missing header is reported under a code of its own
extract_token_unlisted_code(req) ==
    IF req.authorization = {}
    THEN Err(AuthError("Missing Authorization header", "UNAUTHORIZED"))
    ELSE
    LET auth_header == CHOOSE h \in req.authorization : TRUE IN
    IF ~auth_header.ascii
    THEN Err(AuthError("Invalid Authorization header", "INVALID_AUTH_HEADER"))
    ELSE IF ~StartsWith(auth_header.chars, BearerPrefix)
    THEN Err(AuthError("Invalid Authorization format", "INVALID_AUTH_FORMAT"))
    ELSE Ok(After(auth_header, 7))

extract_token_from_request(req) ==
    IF req.authorization = {}
    THEN Err(AuthError("Missing Authorization header", "MISSING_AUTH_HEADER"))
    ELSE
    LET auth_header == CHOOSE h \in req.authorization : TRUE IN
    IF ~auth_header.ascii
    THEN Err(AuthError("Invalid Authorization header", "INVALID_AUTH_HEADER"))
    ELSE IF ~StartsWith(auth_header.chars, BearerPrefix)
    THEN Err(AuthError("Invalid Authorization format", "INVALID_AUTH_FORMAT"))
    ELSE Ok(After(auth_header, 7))

\* get_current_user up to the parsed subject: extract, validate at clock t, parse
get_current_user_claims(req, e, t) ==
    LET token == extract_token_from_request(req) IN
    IF ~token.ok THEN Out(token, <<"extract">>)
    ELSE
    LET claims == validate_token(token.val, e, t) IN
    IF ~claims.ok
    THEN Out(Err(AuthError("Invalid token", "INVALID_TOKEN")), <<"extract", "validate">>)
    ELSE
    LET user_id == UuidParseStr(claims.val.sub) IN
    IF ~user_id.ok
    THEN Out(Err(AuthError("Invalid user ID in token", "INVALID_USER_ID")),
             <<"extract", "validate", "parse">>)
    ELSE Out(user_id, <<"extract", "validate", "parse">>)

\* get_current_user from pool.get() on: the connection, then the lookup by id
\* in the table as it is when the SELECT runs
get_current_user_lookup(table, user_id, env) ==
    IF ~env.conn_ok
    THEN Out(Err(AuthError("Database connection failed", "DB_CONNECTION_ERROR")),
             <<"conn">>)
    ELSE IF ~env.query_ok
    THEN Out(Err(AuthError("Database query failed", "DB_QUERY_ERROR")),
             <<"conn", "lookup">>)
    ELSE
    LET user == FindById(table, user_id) IN
    IF user = {}
    THEN Out(Err(AuthError("User not found", "USER_NOT_FOUND")), <<"conn", "lookup">>)
    ELSE Out(Ok(CHOOSE u \in user : TRUE), <<"conn", "lookup">>)

\* get_current_user when nothing else runs between its validation and its lookup
get_current_user(table, req, e, env) ==
    LET head == get_current_user_claims(req, e, env.t1) IN
    IF ~head.r.ok THEN head
    ELSE LET tail == get_current_user_lookup(table, head.r.val, env) IN
         Out(tail.r, head.ops \o tail.ops)

-----------------------------------------------------------------------------
(* Controllers: the HTTP response built from a flow's Result. *)

Response(flow, status, body) == [flow |-> flow, status |-> status, body |-> body]
NoResponse == Response("none", 0, None)

register(r) ==
    IF r.ok THEN Response("register", 201, r.val)
    ELSE IF r.err.code = "EMAIL_EXISTS" THEN Response("register", 409, r.err)
    ELSE IF r.err.code = "PASSWORD_MISMATCH" THEN Response("register", 400, r.err)
    ELSE Response("register", 500, r.err)

login(r) ==
    IF r.ok THEN Response("login", 200, r.val)
    ELSE IF r.err.code = "INVALID_CREDENTIALS" THEN Response("login", 401, r.err)
    ELSE Response("login", 500, r.err)

\* mutant: every failure of /auth/me is answered 401
me_unauthorized(r) ==
    IF r.ok THEN Response("me", 200, UserInfo(r.val)) ELSE Response("me", 401, r.err)

me(r) ==
    IF r.ok THEN Response("me", 200, UserInfo(r.val))
    ELSE IF r.err.code \in {"MISSING_AUTH_HEADER", "INVALID_TOKEN",
                            "INVALID_AUTH_HEADER", "INVALID_AUTH_FORMAT"}
    THEN Response("me", 401, r.err)
    ELSE IF r.err.code = "USER_NOT_FOUND" THEN Response("me", 404, r.err)
    ELSE Response("me", 500, r.err)

\* mutant: logout invalidates the tokens issued so far by replacing the secret
logout_rotates_secret(e) ==
    [resp |-> Response("logout", 200,
                       [message |-> "Logout successful. Please delete the token from client storage."]),
     env |-> {"ffffffffffffffffffffffffffffffff"}]

\* logout: the response, and the process environment the call leaves behind
logout(e) ==
    [resp |-> Response("logout", 200,
                       [message |-> "Logout successful. Please delete the token from client storage."]),
     env |-> e]

-----------------------------------------------------------------------------
(* Protected routes: the bearer middleware and the handlers behind it. *)

Scopes == {"incomes", "expenses"}
Labels == {"Salary", "Freelance"}

\* actix-web-httpauth's BearerAuth extractor: "Bearer" SP credential
BearerAuth(req) ==
    IF req.authorization = {} THEN Err("MissingHeader")
    ELSE
    LET h == CHOOSE v \in req.authorization : TRUE IN
    IF ~h.ascii THEN Err("InvalidHeader")
    ELSE IF ~StartsWith(h.chars, BearerPrefix) THEN Err("MissingScheme")
    ELSE Ok(After(h, 7))

Challenge == [www_authenticate |-> "Bearer"]

\* mutant: a token that fails validation lets the request through
jwt_validator_permissive(req, extensions, e, t) ==
    LET credentials == BearerAuth(req) IN
    IF ~credentials.ok THEN Err(Response("gate", 401, Challenge))
    ELSE
    LET claims == validate_token(credentials.val, e, t) IN
    IF claims.ok THEN Ok(extensions \cup {claims.val})
    ELSE Ok(extensions)

\* mutant: the decoded claims are not inserted into the extensions
jwt_validator_no_insert(req, extensions, e, t) ==
    LET credentials == BearerAuth(req) IN
    IF ~credentials.ok THEN Err(Response("gate", 401, Challenge))
    ELSE
    LET claims == validate_token(credentials.val, e, t) IN
    IF claims.ok THEN Ok(extensions)
    ELSE Err(Response("gate", 401, Challenge))

\* jwt_validator behind HttpAuthentication::bearer: Ok carries the request's
\* extensions after the insert, Err the response that ends the request
jwt_validator(req, extensions, e, t) ==
    LET credentials == BearerAuth(req) IN
    IF ~credentials.ok THEN Err(Response("gate", 401, Challenge))
    ELSE
    LET claims == validate_token(credentials.val, e, t) IN
    IF claims.ok THEN Ok(extensions \cup {claims.val})
    ELSE Err(Response("gate", 401, Challenge))

HandlerCalls ==
    [scope : Scopes, kind : {"get_all"}, id : {None}, user_id : {None}, label : {None}]
    \cup [scope : Scopes, kind : {"create"}, id : UuidPool, user_id : UuidPool,
          label : Labels]
    \cup [scope : Scopes, kind : {"update"}, id : UuidPool, user_id : {None},
          label : Labels]
    \cup [scope : Scopes, kind : {"delete"}, id : UuidPool, user_id : {None},
          label : {None}]

Row(id, user_id, label) == [id |-> id, user_id |-> user_id, label |-> label]

\* the controller and service behind one protected route; returns the
\* response and the table the call leaves behind
handler(table, call, conn_ok) ==
    IF ~conn_ok
    THEN [resp |-> Response(call.kind, 500, None), table |-> table]
    ELSE IF call.kind = "get_all"
    THEN [resp |-> Response(call.kind, 200, None), table |-> table]
    ELSE IF call.kind = "create"
    THEN IF \E x \in table : x.id = call.id
         THEN [resp |-> Response(call.kind, 500, None), table |-> table]
         ELSE [resp |-> Response(call.kind, 201, None),
               table |-> table \cup {Row(call.id, call.user_id, call.label)}]
    ELSE IF ~ \E x \in table : x.id = call.id
    THEN [resp |-> Response(call.kind, 404, None), table |-> table]
    ELSE
    LET x == CHOOSE y \in table : y.id = call.id IN
    IF call.kind = "update"
    THEN [resp |-> Response(call.kind, 200, None),
          table |-> (table \ {x}) \cup {[x EXCEPT !.label = call.label]}]
    ELSE [resp |-> Response(call.kind, 200, None), table |-> table \ {x}]

-----------------------------------------------------------------------------
(* Actions *)

Idle(w) == pc[w] \in {"idle", "done"}

\* the clock may advance between two reads inside one call
Drift == IF ticks < MaxTicks THEN {0, 1} ELSE {0}

Tick(d) ==
    /\ ticks < MaxTicks
    /\ now' = now + d
    /\ ticks' = ticks + 1
    /\ UNCHANGED <<jwt_secret, users, ledger, wallet, pc, loc, ext, ops, resp>>

\* a call that ends in this step with response rsp after the steps st
Completes(w, rsp, st) ==
    /\ pc' = [pc EXCEPT ![w] = "done"]
    /\ loc' = [loc EXCEPT ![w] = None]
    /\ ops' = [ops EXCEPT ![w] = st]
    /\ resp' = [resp EXCEPT ![w] = rsp]

\* Every action takes a `fault`: what goes wrong in the environment during the
\* call ("conn", "query", "rng", "insert", "enc", or "none"). A call ends at the
\* first step that fails, so one failure per call covers every combination.

\* a client keeps the token of the envelope it was sent
ClientKeeps(w) ==
    /\ pc[w] = "done"
    /\ resp[w].flow \in {"register", "login"}
    /\ resp[w].status \in {200, 201}
    /\ wallet' \in Keep(resp[w].body.token) \ {wallet}
    /\ UNCHANGED <<jwt_secret, now, ticks, users, ledger, pc, loc, ext, ops, resp>>

RegisterBegin(w, data, fault) ==
    /\ Idle(w)
    /\ LET out == register_check(users, data, fault # "conn", fault # "query") IN
       IF out.r.ok
       THEN /\ pc' = [pc EXCEPT ![w] = "reg_insert"]
            /\ loc' = [loc EXCEPT ![w] = data]
            /\ ops' = [ops EXCEPT ![w] = out.ops]
            /\ resp' = [resp EXCEPT ![w] = NoResponse]
       ELSE Completes(w, register(out.r), out.ops)
    /\ ext' = [ext EXCEPT ![w] = {}]
    /\ UNCHANGED <<jwt_secret, now, ticks, users, ledger, wallet>>

\* the hashing and the insert; d: the seconds the statement's round trip to
\* the database takes. The row is in the table when the step ends, before the
\* token is generated.
RegisterInsert(w, salt, id, fault, d) ==
    /\ pc[w] = "reg_insert"
    /\ LET env == [salt |-> salt, rng_ok |-> fault # "rng", id |-> id,
                   insert_ok |-> fault # "insert", t0 |-> now]
           out == register_insert(users, loc[w], env)
       IN  /\ users' = out.table
           /\ IF out.r.ok
              THEN /\ pc' = [pc EXCEPT ![w] = "reg_token"]
                   /\ loc' = [loc EXCEPT ![w] = out.r.val]
                   /\ ops' = [ops EXCEPT ![w] = ops[w] \o out.ops]
                   /\ resp' = resp
              ELSE Completes(w, register(out.r), ops[w] \o out.ops)
           /\ now' = IF "insert" \in {out.ops[i] : i \in 1..Len(out.ops)}
                     THEN now + d ELSE now
           /\ ticks' = ticks + (now' - now)
    /\ UNCHANGED <<jwt_secret, ledger, wallet, ext>>

\* the token for the inserted row; d: the seconds between the clock read of
\* generate_token and that of Claims::new
RegisterToken(w, fault, d) ==
    /\ pc[w] = "reg_token"
    /\ LET env == [enc_ok |-> fault # "enc", t1 |-> now, t2 |-> now + d]
           out == register_token(loc[w], jwt_secret, env)
       IN  Completes(w, register(out.r), ops[w] \o out.ops)
    /\ now' = now + d
    /\ ticks' = ticks + d
    /\ UNCHANGED <<jwt_secret, users, ledger, wallet, ext>>

\* mutant: a successful login stamps the user's row
LoginStampsUser(w, data, fault, d) ==
    /\ Idle(w)
    /\ LET env == [conn_ok |-> fault # "conn", query_ok |-> fault # "query",
                   enc_ok |-> fault # "enc", t1 |-> now, t2 |-> now + d]
           out == login_user(users, data, jwt_secret, env)
       IN  /\ Completes(w, login(out.r), out.ops)
           /\ now' = IF "token" \in {out.ops[i] : i \in 1..Len(out.ops)}
                     THEN now + d ELSE now
           /\ ticks' = ticks + (now' - now)
           /\ users' = IF out.r.ok
                       THEN { IF u.email = data.email
                              THEN [u EXCEPT !.updated_at = now + 1] ELSE u : u \in users }
                       ELSE users
    /\ ext' = [ext EXCEPT ![w] = {}]
    /\ UNCHANGED <<jwt_secret, ledger, wallet>>

Login(w, data, fault, d) ==
    /\ Idle(w)
    /\ LET env == [conn_ok |-> fault # "conn", query_ok |-> fault # "query",
                   enc_ok |-> fault # "enc", t1 |-> now, t2 |-> now + d]
           out == login_user(users, data, jwt_secret, env)
       IN  /\ Completes(w, login(out.r), out.ops)
           /\ now' = IF "token" \in {out.ops[i] : i \in 1..Len(out.ops)}
                     THEN now + d ELSE now
           /\ ticks' = ticks + (now' - now)
    /\ ext' = [ext EXCEPT ![w] = {}]
    /\ UNCHANGED <<jwt_secret, users, ledger, wallet>>

\* /auth/me up to pool.get(): the token is extracted, validated against the
\* clock and its subject parsed; the call then waits for a connection
MeBegin(w, req) ==
    /\ Idle(w)
    /\ LET out == get_current_user_claims(req, jwt_secret, now) IN
       IF out.r.ok
       THEN /\ pc' = [pc EXCEPT ![w] = "me_lookup"]
            /\ loc' = [loc EXCEPT ![w] =
                         [token |-> extract_token_from_request(req).val,
                          user_id |-> out.r.val]]
            /\ ops' = [ops EXCEPT ![w] = out.ops]
            /\ resp' = [resp EXCEPT ![w] = NoResponse]
       ELSE Completes(w, me(out.r), out.ops)
    /\ ext' = [ext EXCEPT ![w] = {}]
    /\ UNCHANGED <<jwt_secret, now, ticks, users, ledger, wallet>>

\* /auth/me from pool.get() on: the lookup reads the table as it is now,
\* whatever the clock and the table were when the token was validated
MeFinish(w, fault) ==
    /\ pc[w] = "me_lookup"
    /\ LET env == [conn_ok |-> fault # "conn", query_ok |-> fault # "query"]
           out == get_current_user_lookup(users, loc[w].user_id, env)
       IN  Completes(w, me(out.r), ops[w] \o out.ops)
    /\ UNCHANGED <<jwt_secret, now, ticks, users, ledger, wallet, ext>>

\* /auth/logout: the handler takes no argument and does not see the request
Logout(w) ==
    /\ Idle(w)
    /\ LET out == logout(jwt_secret) IN
       /\ jwt_secret' = out.env
       /\ Completes(w, out.resp, <<"logout">>)
    /\ ext' = [ext EXCEPT ![w] = {}]
    /\ UNCHANGED <<now, ticks, users, ledger, wallet>>

\* a request to a protected scope reaches the middleware
Middleware(w, req) ==
    /\ Idle(w)
    /\ LET out == jwt_validator(req, {}, jwt_secret, now) IN
       IF out.ok
       THEN /\ pc' = [pc EXCEPT ![w] = "handler"]
            /\ loc' = [loc EXCEPT ![w] = req]
            /\ ext' = [ext EXCEPT ![w] = out.val]
            /\ ops' = [ops EXCEPT ![w] = <<"gate">>]
            /\ resp' = [resp EXCEPT ![w] = NoResponse]
       ELSE /\ Completes(w, out.err, <<"gate">>)
            /\ ext' = [ext EXCEPT ![w] = {}]
    /\ UNCHANGED <<jwt_secret, now, ticks, users, ledger, wallet>>

\* the user id that the claims in the request context of worker w name
Caller(w) ==
    IF ext[w] = {} THEN Err("NoClaims")
    ELSE UuidParseStr((CHOOSE c \in ext[w] : TRUE).sub)

\* mutant: update and delete are refused unless the row belongs to the caller
HandlerOwnerChecked(w, call, fault) ==
    /\ pc[w] = "handler"
    /\ call.kind = "create" =>
           Cardinality(ledger["incomes"]) + Cardinality(ledger["expenses"]) < MaxRows
    /\ LET out == handler(ledger[call.scope], call, fault # "conn")
           foreign == /\ call.kind \in {"update", "delete"}
                      /\ \E x \in ledger[call.scope] :
                            x.id = call.id /\ Caller(w) # Ok(x.user_id)
       IN  IF foreign
           THEN /\ ledger' = ledger
                /\ Completes(w, Response(call.kind, 403, None), ops[w] \o <<"handler">>)
           ELSE /\ ledger' = [ledger EXCEPT ![call.scope] = out.table]
                /\ Completes(w, out.resp, ops[w] \o <<"handler">>)
    /\ UNCHANGED <<jwt_secret, now, ticks, users, wallet, ext>>

\* the protected handler of the route runs
Handler(w, call, fault) ==
    /\ pc[w] = "handler"
    /\ call.kind = "create" =>
           Cardinality(ledger["incomes"]) + Cardinality(ledger["expenses"]) < MaxRows
    /\ LET out == handler(ledger[call.scope], call, fault # "conn") IN
       /\ ledger' = [ledger EXCEPT ![call.scope] = out.table]
       /\ Completes(w, out.resp, ops[w] \o <<"handler">>)
    /\ UNCHANGED <<jwt_secret, now, ticks, users, wallet, ext>>

\* a row as a registration at start-up time leaves it
SeedUser(i, email) ==
    NewUser(NewV4(i), "John", "Doe", email, Bcrypt(Pw("a", 8), "s1", DefaultCost), Epoch)

\* users as generate_token can be handed them
SeedUsers == { SeedUser(i, email) : i \in 1..MaxIds, email \in Emails }

\* a users table left by earlier registrations
SeedTable == { SeedUser(1, "john@example.com"), SeedUser(2, "jane@example.com") }

\* the tokens these users were sent when they logged in at start-up time
SeedWallet ==
    { generate_token(u, {ServerSecret}, Epoch, Epoch, TRUE).val : u \in SeedTable }

\* a row whose password column holds text that is no bcrypt hash, as a writer
\* of the database other than register_user can leave it
LegacyUser ==
    [SeedUser(MaxIds + 1, "john@example.com") EXCEPT
        !.password = [fmt |-> "plain", cost |-> 0, salt |-> "", digest |-> <<>>]]

\* the users table after a user who holds a token was deleted from it
AgedTable == {LegacyUser}

\* the token that deleted user was sent when the row still existed
StaleWallet ==
    {generate_token(SeedUser(MaxIds + 2, "jane@example.com"), {ServerSecret},
                    Epoch, Epoch, TRUE).val}

\* mutant: whatever the variable holds, or the fallback, is accepted
get_jwt_secret_unchecked(e) == Ok(GetSecret(e))

\* config::get_jwt_secret; e: the values of JWT_SECRET, {} when it is not set
get_jwt_secret(e) ==
    IF e = {}
    THEN Err("JWT_SECRET environment variable is required but not set")
    ELSE LET secret == CHOOSE v \in e : TRUE IN
         IF Len(secret) < 32
         THEN Err("JWT_SECRET must be at least 32 characters long for security")
         ELSE Ok(secret)

\* the thread that runs main; its slot in pc, loc, ops and resp is the last one
Main == MaxWorkers

\* main up to the call of the pool constructor: validate_environment panics on
\* the first required variable that is missing or refused (fault "before":
\* one that is read before JWT_SECRET; "after": one read after it, or the
\* production rules), then create_connection_pool enters the loop of
\* create_connection_pool_with_retries with max_retries = 5
ValidateEnvironment(m, fault) ==
    /\ pc[m] = "start"
    /\ LET secret == get_jwt_secret(jwt_secret)
           refused == IF fault = "before" THEN Err("environment variable refused")
                      ELSE IF ~secret.ok THEN secret
                      ELSE IF fault = "after" THEN Err("environment variable refused")
                      ELSE secret
       IN  IF refused.ok
           THEN /\ pc' = [pc EXCEPT ![m] = "pool"]
                /\ loc' = [loc EXCEPT ![m] =
                             [attempt |-> 1, max_retries |-> DefaultRetries]]
                /\ ops' = [ops EXCEPT ![m] = <<"validate_environment">>]
                /\ resp' = resp
           ELSE /\ pc' = [pc EXCEPT ![m] = "aborted"]
                /\ loc' = loc
                /\ ops' = [ops EXCEPT ![m] = <<"validate_environment", "panic">>]
                /\ resp' = [resp EXCEPT ![m] = Response("main", 0, [result |-> refused])]
    /\ UNCHANGED <<jwt_secret, now, ticks, users, ledger, wallet, ext>>

\* mutant: the first failed build aborts, no attempt is repeated
pool_attempt_no_retry(attempt, max_retries, build_ok) ==
    IF attempt > max_retries THEN "unreachable"
    ELSE IF build_ok THEN "return"
    ELSE "panic"

\* create_connection_pool_with_retries at the head of its loop with the loop
\* variable at `attempt`: what this pass does when build() succeeds or fails
pool_attempt(attempt, max_retries, build_ok) ==
    IF attempt > max_retries THEN "unreachable"
    ELSE IF build_ok THEN "return"
    ELSE IF attempt < max_retries THEN "sleep"
    ELSE "panic"

\* the record of a call that main made: its argument and how it ended
MainRecord(flow, max_retries, result) ==
    Response(flow, 0, [max_retries |-> max_retries, result |-> result])

\* one pass of the loop of create_connection_pool_with_retries
PoolAttempt(m, build_ok) ==
    /\ pc[m] = "pool"
    /\ LET attempt == loc[m].attempt
           max_retries == loc[m].max_retries
           pass == pool_attempt(attempt, max_retries, build_ok)
       IN  /\ pass = "unreachable" =>
                 /\ pc' = [pc EXCEPT ![m] = "aborted"]
                 /\ loc' = [loc EXCEPT ![m] = None]
                 /\ ops' = [ops EXCEPT ![m] = ops[m] \o <<"panic">>]
                 /\ resp' = [resp EXCEPT ![m] =
                               MainRecord("pool", max_retries,
                                          Err("This should never be reached"))]
                 /\ now' = now
           /\ pass = "return" =>
                 /\ pc' = [pc EXCEPT ![m] = "main"]
                 /\ loc' = [loc EXCEPT ![m] = None]
                 /\ ops' = [ops EXCEPT ![m] = ops[m] \o <<"build", "return">>]
                 /\ resp' = [resp EXCEPT ![m] = MainRecord("pool", max_retries, Ok("pool"))]
                 /\ now' = now
           /\ pass = "sleep" =>
                 /\ pc' = pc
                 /\ loc' = [loc EXCEPT ![m].attempt = attempt + 1]
                 /\ ops' = [ops EXCEPT ![m] = ops[m] \o <<"build", "sleep">>]
                 /\ resp' = resp
                 /\ now' = now + RetryDelay
           /\ pass = "panic" =>
                 /\ pc' = [pc EXCEPT ![m] = "aborted"]
                 /\ loc' = [loc EXCEPT ![m] = None]
                 /\ ops' = [ops EXCEPT ![m] = ops[m] \o <<"build", "panic">>]
                 /\ resp' = [resp EXCEPT ![m] =
                               MainRecord("pool", max_retries,
                                          Err("Failed to create connection pool"))]
                 /\ now' = now
    /\ UNCHANGED <<jwt_secret, ticks, users, ledger, wallet, ext>>

\* main after the pool was returned: a connection for the migrations, the
\* migrations, then the HTTP server with the pool as its app data, bound to
\* the server address. The first two failures panic; a failing bind makes main
\* return the error, with nothing served.
MainStart(m, fault) ==
    /\ pc[m] = "main"
    /\ IF fault = "conn"
       THEN /\ pc' = [pc EXCEPT ![m] = "aborted"]
            /\ ops' = [ops EXCEPT ![m] = ops[m] \o <<"conn", "panic">>]
            /\ resp' = [resp EXCEPT ![m] =
                          MainRecord("main", resp[m].body.max_retries,
                                     Err("Failed to get connection from pool"))]
       ELSE IF fault = "migrate"
       THEN /\ pc' = [pc EXCEPT ![m] = "aborted"]
            /\ ops' = [ops EXCEPT ![m] = ops[m] \o <<"conn", "migrate", "panic">>]
            /\ resp' = [resp EXCEPT ![m] =
                          MainRecord("main", resp[m].body.max_retries,
                                     Err("Failed to run database migrations"))]
       ELSE IF fault = "bind"
       THEN /\ pc' = [pc EXCEPT ![m] = "exited"]
            /\ ops' = [ops EXCEPT ![m] =
                         ops[m] \o <<"conn", "migrate", "bind", "return">>]
            /\ resp' = [resp EXCEPT ![m] =
                          MainRecord("main", resp[m].body.max_retries, Err("io::Error"))]
       ELSE /\ pc' = [w \in Workers |-> IF w = m THEN "serving"
                                        ELSE IF w = 1 THEN "idle" ELSE pc[w]]
            /\ ops' = [ops EXCEPT ![m] =
                         ops[m] \o <<"conn", "migrate", "bind", "serve">>]
            /\ resp' = resp
    /\ UNCHANGED <<jwt_secret, now, ticks, users, ledger, wallet, loc, ext>>

\* the server future that main awaits completes, with Ok(()) after a shutdown
\* or with the I/O error it met; main returns that value and the workers are
\* gone. A request is one step, so none is in flight.
MainReturn(m, run_ok) ==
    /\ pc[m] = "serving"
    /\ pc' = [w \in Workers |-> IF w = m THEN "exited" ELSE "off"]
    /\ ops' = [ops EXCEPT ![m] = ops[m] \o <<"return">>]
    /\ resp' = [resp EXCEPT ![m] =
                  MainRecord("main", resp[m].body.max_retries,
                             IF run_ok THEN Ok("unit") ELSE Err("io::Error"))]
    /\ UNCHANGED <<jwt_secret, now, ticks, users, ledger, wallet, loc, ext>>

\* passwords around the length bcrypt looks at
HasherPasswords ==
    { Pw(c, n) : c \in {"a", "b"},
                 n \in {1, 8, BcryptMaxLen - 1, BcryptMaxLen, BcryptMaxLen + 1,
                        BcryptMaxLen + 2} }

\* a direct call of AuthService::hash_password
HashPasswordCall(w, password, salt, fault) ==
    /\ Idle(w)
    /\ Completes(w, Response("hash_password", 0,
                             [password |-> password,
                              result |-> hash_password(password, salt, fault # "rng")]),
                 <<"hash">>)
    /\ UNCHANGED <<jwt_secret, now, ticks, users, ledger, wallet, ext>>

\* a direct call of AuthService::verify_password with the hash that the
\* preceding hash_password call returned
VerifyPasswordCall(w, password) ==
    /\ pc[w] = "done"
    /\ resp[w].flow = "hash_password"
    /\ resp[w].body.result.ok
    /\ Completes(w, Response("verify_password", 0,
                             [password |-> password,
                              hashed |-> resp[w].body.password,
                              result |-> verify_password(password,
                                                         resp[w].body.result.val)]),
                 <<"hash", "verify">>)
    /\ UNCHANGED <<jwt_secret, now, ticks, users, ledger, wallet, ext>>

\* a direct call of AuthService::generate_token
GenerateTokenCall(w, user, fault, d) ==
    /\ Idle(w)
    /\ LET token == generate_token(user, jwt_secret, now, now + d, fault # "enc") IN
       /\ Completes(w, Response("generate_token", 0, token), <<"token">>)
       /\ IF token.ok THEN wallet' \in Keep(token.val) ELSE wallet' = wallet
    /\ now' = now + d
    /\ ticks' = ticks + d
    /\ UNCHANGED <<jwt_secret, users, ledger, ext>>

\* a direct call of AuthService::validate_token
ValidateTokenCall(w, token) ==
    /\ Idle(w)
    /\ Completes(w, Response("validate_token", 0,
                             [token |-> token,
                              result |-> validate_token(token, jwt_secret, now)]),
                 <<"validate">>)
    /\ UNCHANGED <<jwt_secret, now, ticks, users, ledger, wallet, ext>>

-----------------------------------------------------------------------------
(* Specifications *)

TickSteps == {1, Leeway, TokenTtl}

\* the server right after start-up, with `active` workers taking requests
Started(active, table, held, clock_left) ==
    /\ jwt_secret = {ServerSecret}
    /\ now = Epoch
    /\ ticks = MaxTicks - clock_left
    /\ users = table
    /\ ledger = [s \in Scopes |-> {}]
    /\ wallet = held
    /\ pc = [w \in Workers |-> IF w \in active THEN "idle" ELSE "off"]
    /\ loc = [w \in Workers |-> None]
    /\ ext = [w \in Workers |-> {}]
    /\ ops = [w \in Workers |-> <<>>]
    /\ resp = [w \in Workers |-> NoResponse]

RegisterBeginStep ==
    \E w \in Workers, data \in RegisterRequests, fault \in {"none", "conn", "query"} :
        RegisterBegin(w, data, fault)
RegisterInsertStep ==
    \E w \in Workers, salt \in Salts, id \in UuidPool,
       fault \in {"none", "rng", "insert"}, d \in Drift :
        RegisterInsert(w, salt, id, fault, d)
RegisterTokenStep ==
    \E w \in Workers, fault \in {"none", "enc"}, d \in Drift :
        RegisterToken(w, fault, d)
LoginStep ==
    \E w \in Workers, data \in LoginRequests, fault \in {"none", "conn", "query", "enc"},
       d \in Drift :
        Login(w, data, fault, d)
MeBeginStep == \E w \in Workers, req \in MeRequests : MeBegin(w, req)
MeFinishStep ==
    \E w \in Workers, fault \in {"none", "conn", "query"} : MeFinish(w, fault)
ClientKeepsStep == \E w \in Workers : ClientKeeps(w)
MiddlewareStep == \E w \in Workers, req \in Requests : Middleware(w, req)
HandlerStep ==
    \E w \in Workers, call \in HandlerCalls, fault \in {"none", "conn"} :
        Handler(w, call, fault)
HandlerReadStep ==
    \E w \in Workers, call \in {c \in HandlerCalls : c.kind = "get_all"},
       fault \in {"none", "conn"} :
        Handler(w, call, fault)
LogoutStep == \E w \in Workers : Logout(w)
TickStep == \E d \in TickSteps : Tick(d)
GenerateTokenStep ==
    \E w \in Workers, user \in SeedUsers, fault \in {"none", "enc"}, d \in Drift :
        GenerateTokenCall(w, user, fault, d)
ValidateTokenStep == \E w \in Workers, token \in Presentable : ValidateTokenCall(w, token)

HashPasswordStep ==
    \E w \in Workers, password \in HasherPasswords, salt \in Salts,
       fault \in {"none", "rng"} :
        HashPasswordCall(w, password, salt, fault)
VerifyPasswordStep ==
    \E w \in Workers, password \in HasherPasswords : VerifyPasswordCall(w, password)

\* the credential hasher called on its own
InitHasher == Started({1}, {}, {}, 0)
NextHasher == HashPasswordStep \/ VerifyPasswordStep
SpecHasher == InitHasher /\ [][NextHasher]_vars

PoolAttemptStep == \E build_ok \in BOOLEAN : PoolAttempt(Main, build_ok)
MainStartStep == \E fault \in {"none", "conn", "migrate", "bind"} : MainStart(Main, fault)
MainReturnStep == \E run_ok \in BOOLEAN : MainReturn(Main, run_ok)

ValidateEnvironmentStep ==
    \E fault \in {"none", "before", "after"} : ValidateEnvironment(Main, fault)

\* what JWT_SECRET can hold when the process starts: nothing, a value shorter
\* than 32 characters, a value that passes
StartEnvironments == {{}} \cup { {k} : k \in {ServerSecret} \cup OtherSecrets }

\* the process at the start of main, after dotenv() has filled the environment
Starting(e) ==
    /\ jwt_secret = e
    /\ now = Epoch
    /\ ticks = MaxTicks
    /\ users = SeedTable
    /\ ledger = [s \in Scopes |-> {}]
    /\ wallet = {}
    /\ pc = [w \in Workers |-> IF w = Main THEN "start" ELSE "off"]
    /\ loc = [w \in Workers |-> None]
    /\ ext = [w \in Workers |-> {}]
    /\ ops = [w \in Workers |-> <<>>]
    /\ resp = [w \in Workers |-> NoResponse]

\* start-up, then the logins and the token calls of the running server
InitBoot == \E e \in StartEnvironments : Starting(e)
NextBoot ==
    \/ ValidateEnvironmentStep \/ PoolAttemptStep \/ MainStartStep \/ MainReturnStep
    \/ LoginStep \/ GenerateTokenStep \/ ValidateTokenStep \/ ClientKeepsStep
SpecBoot == InitBoot /\ [][NextBoot]_vars

\* the three auth flows served one request at a time
Init == Started({1}, {}, {}, 0)
Next ==
    \/ RegisterBeginStep \/ RegisterInsertStep \/ RegisterTokenStep
    \/ LoginStep \/ MeBeginStep \/ MeFinishStep \/ ClientKeepsStep
Spec == Init /\ [][Next]_vars

\* the three auth flows on a database that other writers have changed
InitAged == Started({1}, AgedTable, StaleWallet, 1)
SpecAged == InitAged /\ [][Next]_vars

\* every endpoint served one request at a time, under a moving clock; one
\* user is registered when the server starts, the other email is free
InitSession == Started({1}, {SeedUser(1, "john@example.com")}, {}, MaxTicks - 1)
NextSession ==
    \/ RegisterBeginStep \/ RegisterInsertStep \/ RegisterTokenStep
    \/ LoginStep \/ LogoutStep \/ MeBeginStep \/ MeFinishStep
    \/ ClientKeepsStep \/ MiddlewareStep \/ HandlerReadStep \/ TickStep
SpecSession == InitSession /\ [][NextSession]_vars

\* the token codec under a moving clock
InitCodec == Started({1}, {}, {}, MaxTicks)
NextCodec == TickStep \/ GenerateTokenStep \/ ValidateTokenStep
SpecCodec == InitCodec /\ [][NextCodec]_vars

\* registrations handled concurrently
InitConc == Started(Workers, {}, {}, 0)
NextConc == RegisterBeginStep \/ RegisterInsertStep \/ RegisterTokenStep
SpecConc == InitConc /\ [][NextConc]_vars

\* the token a user was sent a day and a minute before this start of the
\* server, in the last second in which it validates; the row has been deleted
DeletedWallet ==
    {generate_token(SeedUser(1, "john@example.com"), {ServerSecret},
                    Epoch - TokenTtl - Leeway, Epoch - TokenTtl - Leeway, TRUE).val}

\* the registrations whose two passwords are the same short password
RegisterMatchingStep ==
    \E w \in Workers, data \in {r \in RegisterRequests :
                                   r.password = Pw("a", 8) /\ r.confirm_password = r.password},
       fault \in {"none", "conn"} :
        RegisterBegin(w, data, fault)

\* /auth/me asked with a correctly signed token: one the client holds, or one
\* whose subject is spelled in another form
MeSignedStep ==
    \E w \in Workers, tok \in wallet \cup Respelled : MeBegin(w, BearerRequest(tok))

\* /auth/me and /auth/register handled concurrently under a moving clock, on
\* an empty users table
InitLookup == Started(Workers, {}, DeletedWallet, 1)
NextLookup ==
    \/ RegisterMatchingStep \/ RegisterInsertStep \/ RegisterTokenStep
    \/ MeSignedStep \/ MeFinishStep \/ TickStep
SpecLookup == InitLookup /\ [][NextLookup]_vars

\* every operation of the auth subsystem, one call at a time
InitStore == Started({1}, {}, {}, 0)
NextStore ==
    \/ RegisterBeginStep \/ RegisterInsertStep \/ RegisterTokenStep
    \/ LoginStep \/ MeBeginStep \/ MeFinishStep \/ LogoutStep
    \/ ClientKeepsStep \/ ValidateTokenStep \/ MiddlewareStep \/ HandlerReadStep
SpecStore == InitStore /\ [][NextStore]_vars

\* requests to the protected scopes handled one at a time
InitOwner == Started({1}, SeedTable, SeedWallet, 0)
NextOwner == MiddlewareStep \/ HandlerStep
SpecOwner == InitOwner /\ [][NextOwner]_vars

\* requests to the protected scopes handled concurrently
InitGate == Started(Workers, SeedTable, SeedWallet, 0)
NextGate == MiddlewareStep \/ HandlerStep
SpecGate == InitGate /\ [][NextGate]_vars

-----------------------------------------------------------------------------
(* Claims *)

ErrorResponse(flow, status, message, code) ==
    Response(flow, status, AuthError(message, code))

Code(rsp) == IF rsp.status >= 400 /\ rsp.flow \in {"register", "login", "me"}
             THEN rsp.body.code ELSE "OK"

NoRecord(email) == \A u \in users : u.email # email
NonMatching(data) ==
    \E u \in users :
        /\ u.email = data.email
        /\ u.password.fmt = "2b"
        /\ Bcrypt(data.password, u.password.salt, u.password.cost).digest
               # u.password.digest

\* C1: when the lookup and the verification run without infrastructure error,
\* a login with an email that has no record and a login with an existing
\* email and a non-matching password get one and the same response: status
\* 401 with code INVALID_CREDENTIALS and the same message.
C1_EnumerationSafe ==
    [][\A w \in Workers, data \in LoginRequests, fault \in {"none", "enc"}, d \in Drift :
         (Login(w, data, fault, d) /\ (NoRecord(data.email) \/ NonMatching(data)))
         => resp'[w] = ErrorResponse("login", 401, "Invalid credentials",
                                     "INVALID_CREDENTIALS")]_vars

\* a login with an existing email and a wrong password was answered
C1_Witness ==
    \E w \in Workers :
        /\ resp[w] = ErrorResponse("login", 401, "Invalid credentials",
                                   "INVALID_CREDENTIALS")
        /\ ops[w] = <<"conn", "lookup", "verify">>

\* C2 as stated: a correctly signed token is rejected whenever the clock is at
\* or after its exp claim.
C2_StrictExpiry ==
    [][\A w \in Workers, token \in Presentable :
         (/\ ValidateTokenCall(w, token)
          /\ CorrectlySigned(token, jwt_secret)
          /\ now >= token.claims.exp)
         => ~resp'[w].body.result.ok]_vars

SignedWithOtherSecret(token) ==
    /\ token.parts = 3
    /\ token.sig # None
    /\ token.sig.key # GetSecret(jwt_secret)

\* C3: a token whose signature was made with another secret is rejected for
\* its signature, whatever claims it carries and whatever its exp says.
C3_ForgedRejected ==
    [][\A w \in Workers, token \in Presentable :
         (ValidateTokenCall(w, token) /\ SignedWithOtherSecret(token))
         => resp'[w].body.result = Err("InvalidSignature")]_vars

\* a forged token with a far-future expiry was validated and rejected
C3_Witness ==
    \E w \in Workers :
        /\ resp[w].flow = "validate_token"
        /\ SignedWithOtherSecret(resp[w].body.token)
        /\ resp[w].body.token.claims.exp > now + TokenTtl
        /\ ~resp[w].body.result.ok

RoundTrip(claims, user) ==
    /\ claims.ok
    /\ claims.val.sub = UuidToString(user.id)
    /\ claims.val.email = user.email

\* C4: the token generate_token returns for a user validates, at every
\* instant before its expiry, to Claims whose sub is the string form of the
\* user's id and whose email is the user's email; and every validation of a
\* token a client holds, made before expiry, returns the claims it carries.
C4_RoundTrip ==
    [][/\ \A w \in Workers, user \in SeedUsers, d \in Drift :
            GenerateTokenCall(w, user, "none", d)
            => /\ resp'[w].body.ok
               /\ \A t \in {now', now' + 1, now + TokenTtl - 1} :
                     RoundTrip(validate_token(resp'[w].body.val, jwt_secret, t), user)
       /\ \A w \in Workers, token \in wallet :
            (ValidateTokenCall(w, token) /\ now < token.claims.exp)
            => /\ resp'[w].body.result = Ok(token.claims)
               /\ \E user \in SeedUsers : RoundTrip(resp'[w].body.result, user)]_vars

\* an issued token was validated later, before its expiry, and accepted
C4_Witness ==
    \E w \in Workers :
        /\ resp[w].flow = "validate_token"
        /\ resp[w].body.token \in wallet
        /\ resp[w].body.result.ok
        /\ resp[w].body.token.claims.iat < now
        /\ now < resp[w].body.token.claims.exp

Steps(w) == {ops[w][i] : i \in 1..Len(ops[w])}
StepsAfter(w) == {ops'[w][i] : i \in 1..Len(ops'[w])}

\* the call of worker w ends in this step without having touched the users table
EndsOffStore(w) ==
    /\ pc'[w] = "done"
    /\ users' = users
    /\ StepsAfter(w) \cap {"lookup", "insert"} = {}

\* C5 as stated: every register_user call whose password differs from
\* confirm_password returns PASSWORD_MISMATCH and never reaches the user store.
C5_MismatchAlways ==
    [][\A w \in Workers, data \in RegisterRequests, fault \in {"none", "conn", "query"} :
         (RegisterBegin(w, data, fault) /\ data.password # data.confirm_password)
         => (Code(resp'[w]) = "PASSWORD_MISMATCH" /\ EndsOffStore(w))]_vars

\* C5, amended: a register_user call whose password differs from
\* confirm_password never reaches the user store (no lookup, no insert, store
\* unchanged); it returns PASSWORD_MISMATCH (400) when the pool supplies a
\* connection and DB_CONNECTION_ERROR when it does not.
C5_MismatchAfterConnection ==
    [][\A w \in Workers, data \in RegisterRequests, fault \in {"none", "conn", "query"} :
         (RegisterBegin(w, data, fault) /\ data.password # data.confirm_password)
         => /\ EndsOffStore(w)
            /\ resp'[w] = IF fault = "conn"
                          THEN ErrorResponse("register", 500, "Database connection failed",
                                             "DB_CONNECTION_ERROR")
                          ELSE ErrorResponse("register", 400, "Passwords do not match",
                                             "PASSWORD_MISMATCH")]_vars

\* a registration with mismatched passwords was refused while users exist
C5_Witness ==
    \E w \in Workers :
        /\ resp[w].flow = "register"
        /\ Code(resp[w]) = "PASSWORD_MISMATCH"
        /\ ops[w] = <<"conn", "compare">>
        /\ users # {}

\* the call of worker w ends in this step without an insert
EndsWithoutInsert(w) ==
    /\ pc'[w] = "done"
    /\ users' = users
    /\ "insert" \notin StepsAfter(w)

\* C6 as stated: a register_user call with matching passwords and an email
\* already present returns EMAIL_EXISTS and performs no insert.
C6_ExistsAlways ==
    [][\A w \in Workers, data \in RegisterRequests, fault \in {"none", "conn", "query"} :
         (/\ RegisterBegin(w, data, fault)
          /\ data.password = data.confirm_password
          /\ ~NoRecord(data.email))
         => (Code(resp'[w]) = "EMAIL_EXISTS" /\ EndsWithoutInsert(w))]_vars

\* C6, amended: a register_user call with matching passwords and an email
\* already present performs no insert and leaves the store as it was; it
\* returns EMAIL_EXISTS (409) when the connection is acquired and the lookup
\* query succeeds, DB_CONNECTION_ERROR or DB_QUERY_ERROR when they fail.
C6_ExistsAfterLookup ==
    [][\A w \in Workers, data \in RegisterRequests, fault \in {"none", "conn", "query"} :
         (/\ RegisterBegin(w, data, fault)
          /\ data.password = data.confirm_password
          /\ ~NoRecord(data.email))
         => /\ EndsWithoutInsert(w)
            /\ resp'[w] =
                 IF fault = "conn"
                 THEN ErrorResponse("register", 500, "Database connection failed",
                                    "DB_CONNECTION_ERROR")
                 ELSE IF fault = "query"
                 THEN ErrorResponse("register", 500, "Database query failed",
                                    "DB_QUERY_ERROR")
                 ELSE ErrorResponse("register", 409, "Email already exists",
                                    "EMAIL_EXISTS")]_vars

\* a registration for an email that is already registered was refused
C6_Witness ==
    \E w \in Workers :
        /\ resp[w].flow = "register"
        /\ resp[w].status = 409
        /\ Code(resp[w]) = "EMAIL_EXISTS"
        /\ ops[w] = <<"conn", "compare", "lookup">>
        /\ users # {}

ConnectionError(flow) ==
    ErrorResponse(flow, 500, "Database connection failed", "DB_CONNECTION_ERROR")

\* C7 as stated: in register_user, login_user and get_current_user a pool
\* that cannot supply a connection gives DB_CONNECTION_ERROR, whatever else
\* is wrong with the request: no call ends before it has asked the pool for a
\* connection, and a call that is refused one ends with DB_CONNECTION_ERROR.
C7_ConnectionFirst ==
    [][/\ \A w \in Workers, data \in RegisterRequests :
            RegisterBegin(w, data, "conn") => resp'[w] = ConnectionError("register")
       /\ \A w \in Workers, data \in LoginRequests, d \in Drift :
            Login(w, data, "conn", d) => resp'[w] = ConnectionError("login")
       /\ \A w \in Workers, req \in MeRequests :
            MeBegin(w, req) => pc'[w] = "me_lookup"
       /\ \A w \in Workers :
            MeFinish(w, "conn") => resp'[w] = ConnectionError("me")]_vars

\* the request carries a bearer token that validates and names a user id
Authenticates(req) ==
    LET token == extract_token_from_request(req) IN
    /\ token.ok
    /\ validate_token(token.val, jwt_secret, now).ok
    /\ UuidParseStr(validate_token(token.val, jwt_secret, now).val.sub).ok

\* C7, amended: in register_user and login_user the connection is acquired
\* first, so a pool that cannot supply one gives DB_CONNECTION_ERROR whatever
\* else is wrong with the request; get_current_user acquires it only after the
\* bearer token was extracted, validated and its subject parsed, so there the
\* failure gives DB_CONNECTION_ERROR exactly when those three steps succeed,
\* and the code of the first of them that fails otherwise.
C7_ConnectionFirstInRegisterLogin ==
    [][/\ \A w \in Workers, data \in RegisterRequests :
            (resp'[w].flow = "register" /\ RegisterBegin(w, data, "conn"))
            => (resp'[w] = ConnectionError("register") /\ ops'[w] = <<"conn">>)
       /\ \A w \in Workers, data \in LoginRequests, d \in Drift :
            (resp'[w].flow = "login" /\ Login(w, data, "conn", d))
            => (resp'[w] = ConnectionError("login") /\ ops'[w] = <<"conn">>)
       /\ \A w \in Workers, req \in MeRequests :
            ((resp'[w].flow = "me" \/ pc'[w] = "me_lookup") /\ MeBegin(w, req))
            => IF Authenticates(req)
               THEN /\ pc'[w] = "me_lookup"
                    /\ ops'[w] = <<"extract", "validate", "parse">>
               ELSE /\ Code(resp'[w]) \in {"MISSING_AUTH_HEADER", "INVALID_AUTH_HEADER",
                                           "INVALID_AUTH_FORMAT", "INVALID_TOKEN",
                                           "INVALID_USER_ID"}
                    /\ "conn" \notin StepsAfter(w)
       /\ \A w \in Workers :
            (pc[w] = "me_lookup" /\ MeFinish(w, "conn"))
            => /\ resp'[w] = ConnectionError("me")
               /\ ops'[w] = <<"extract", "validate", "parse", "conn">>]_vars

\* a /auth/me request with a valid token met a pool without connections
C7_Witness ==
    \E w \in Workers :
        /\ resp[w] = ConnectionError("me")
        /\ ops[w] = <<"extract", "validate", "parse", "conn">>

\* C8: no two rows of the users table have the same email, in every state
\* that concurrent register_user calls can reach.
C8_EmailUnique ==
    \A u1 \in users, u2 \in users : u1.email = u2.email => u1 = u2

\* two registrations ran side by side, past their lookups; one created the
\* user and the other one's insert was refused
C8_Witness ==
    \E w1 \in Workers, w2 \in Workers :
        /\ resp[w1].flow = "register" /\ resp[w1].status = 201
        /\ resp[w2].flow = "register" /\ Code(resp[w2]) = "USER_CREATION_ERROR"
        /\ ops[w2] = <<"conn", "compare", "lookup", "hash", "insert">>
        /\ Cardinality(users) = 1

\* the request carries no bearer credential, or one validate_token rejects
Unauthenticated(req) ==
    \/ req.authorization = {}
    \/ LET h == CHOOSE v \in req.authorization : TRUE IN
       \/ ~h.ascii
       \/ ~StartsWith(h.chars, BearerPrefix)
       \/ ~validate_token(After(h, 7), jwt_secret, now).ok

\* C9: a request to the /incomes or /expenses scope whose bearer token
\* validate_token rejects, or that carries no bearer credential, is answered
\* with the 401 challenge in the middleware step itself: the request never
\* gets to its handler, and the tables and the request context stay as they
\* were; and no handler ever runs for a request that was not let through.
C9_Gated ==
    [][/\ \A w \in Workers :
            \/ /\ resp'[w] = Response("gate", 401, Challenge)
               /\ pc'[w] = "done"
               /\ "handler" \notin StepsAfter(w)
               /\ ext'[w] = {}
               /\ ledger' = ledger /\ users' = users
            \/ \A req \in Requests :
                   ~(ops'[w] = <<"gate">> /\ Middleware(w, req) /\ Unauthenticated(req))
       /\ \A w \in Workers :
            pc[w] = "handler" =>
                \/ ~Unauthenticated(loc[w])
                \/ \A call \in HandlerCalls, fault \in {"none", "conn"} :
                       ~Handler(w, call, fault)]_vars

\* a request was turned away at the gate while the tables hold rows
C9_Witness ==
    \E w \in Workers :
        /\ resp[w] = Response("gate", 401, Challenge)
        /\ pc[w] = "done"
        /\ \E sc \in Scopes : ledger[sc] # {}

\* C10: whenever a request is at its protected handler, its context holds
\* exactly one Claims value, the one validate_token decodes from the bearer
\* token of that same request.
C10_ClaimsOfSameRequest ==
    \A w \in Workers :
        pc[w] = "handler"
        => LET credentials == BearerAuth(loc[w]) IN
           /\ credentials.ok
           /\ validate_token(credentials.val, jwt_secret, now).ok
           /\ ext[w] = {validate_token(credentials.val, jwt_secret, now).val}

\* two requests with different tokens are at their handlers at the same time
C10_Witness ==
    \E w1 \in Workers, w2 \in Workers :
        /\ pc[w1] = "handler" /\ pc[w2] = "handler"
        /\ ext[w1] # {} /\ ext[w2] # {}
        /\ ext[w1] # ext[w2]

\* the response is a token envelope of register or login
Envelope(rsp) == rsp.flow \in {"register", "login"} /\ rsp.status \in {200, 201}

\* C11: every successful register and login response is a token envelope
\* with exactly the fields token, token_type, expires_in and user: the token is
\* a complete signed token, token_type is "Bearer", expires_in is 86400, and
\* user has exactly id, first_name, last_name and email, equal to those of a
\* stored record; neither the envelope nor the token's claims have a password.
C11_Envelope ==
    \A w \in Workers :
        Envelope(resp[w])
        => LET body == resp[w].body IN
           /\ DOMAIN body = {"token", "token_type", "expires_in", "user"}
           /\ body.token.parts = 3
           /\ DOMAIN body.token.claims = {"sub", "email", "exp", "iat"}
           /\ body.token_type = "Bearer"
           /\ body.expires_in = 86400
           /\ DOMAIN body.user = {"id", "first_name", "last_name", "email"}
           /\ \E u \in users :
                 /\ u.id = body.user.id
                 /\ u.first_name = body.user.first_name
                 /\ u.last_name = body.user.last_name
                 /\ u.email = body.user.email

\* a user who registered earlier logged in and was sent an envelope
C11_Witness ==
    \E w \in Workers :
        /\ resp[w].flow = "login" /\ resp[w].status = 200
        /\ ops[w] = <<"conn", "lookup", "verify", "token">>

\* C12: a /auth/me request that carries, as "Bearer <token>", the token of the
\* envelope the client was just sent gets 200 with exactly that envelope's user
\* projection; and one that carries any token a client holds from an earlier
\* register or login, before its expiry, gets 200 with the projection (id,
\* first_name, last_name, email and nothing else) of the token's subject.
\* The call takes two steps. The first validates the token and keeps the
\* token and the id of its subject, which is the id of the envelope's user,
\* whose row is stored with that projection; the second answers 200 with the
\* projection of the row that has the kept id; between them the kept values
\* and the rows stay as they are.
C12_RegisterThenMe ==
    [][/\ \A w \in Workers :
            (/\ Envelope(resp[w])
             /\ (resp'[w].flow = "me" \/ pc'[w] = "me_lookup")
             /\ MeBegin(w, BearerRequest(resp[w].body.token)))
            => /\ pc'[w] = "me_lookup"
               /\ loc'[w].token = resp[w].body.token
               /\ loc'[w].user_id = resp[w].body.user.id
               /\ \E u \in users : /\ u.id = resp[w].body.user.id
                                    /\ UserInfo(u) = resp[w].body.user
       /\ \A w \in Workers, tok \in wallet :
            (/\ (resp'[w].flow = "me" \/ pc'[w] = "me_lookup")
             /\ now < tok.claims.exp
             /\ MeBegin(w, BearerRequest(tok)))
            => /\ pc'[w] = "me_lookup"
               /\ loc'[w].token = tok
               /\ UuidToString(loc'[w].user_id) = tok.claims.sub
       /\ \A w \in Workers :
            (pc[w] = "me_lookup" /\ MeFinish(w, "none"))
            => /\ \A u \in users :
                     u.id = loc[w].user_id => resp'[w] = Response("me", 200, UserInfo(u))
               /\ loc[w].token \in wallet
                  => /\ resp'[w].status = 200
                     /\ DOMAIN resp'[w].body = {"id", "first_name", "last_name", "email"}
                     /\ UuidToString(resp'[w].body.id) = loc[w].token.claims.sub
                     /\ resp'[w].body.email = loc[w].token.claims.email
                     /\ \E u \in users : resp'[w].body = UserInfo(u)
       /\ \A w \in Workers :
            (pc[w] = "me_lookup" /\ pc'[w] = "me_lookup") => loc'[w] = loc[w]
       /\ users \subseteq users']_vars

\* with two users registered, /auth/me answered 200 right after an envelope
C12_Witness ==
    \E w \in Workers :
        /\ resp[w].flow = "me" /\ resp[w].status = 200
        /\ ops[w] = <<"extract", "validate", "parse", "conn", "lookup">>
        /\ Cardinality(users) = 2
        /\ \E tok \in wallet : UuidToString(resp[w].body.id) = tok.claims.sub

\* C13: on /auth/me, whatever else fails: a request without Authorization
\* header gets 401 MISSING_AUTH_HEADER; one whose header value is not ASCII
\* gets 401 INVALID_AUTH_HEADER, with or without the Bearer prefix; one whose
\* ASCII value does not start with exactly "Bearer " gets 401
\* INVALID_AUTH_FORMAT; for every other request the token is what follows the
\* 7 characters of the prefix, and that token goes on to validation.
C13_ExtractionOrder ==
    [][\A w \in Workers, req \in MeRequests :
         ((resp'[w].flow = "me" \/ pc'[w] = "me_lookup") /\ MeBegin(w, req))
         => IF req.authorization = {}
            THEN resp'[w] = ErrorResponse("me", 401, "Missing Authorization header",
                                          "MISSING_AUTH_HEADER")
            ELSE LET h == CHOOSE v \in req.authorization : TRUE IN
                 IF ~h.ascii
                 THEN resp'[w] = ErrorResponse("me", 401, "Invalid Authorization header",
                                               "INVALID_AUTH_HEADER")
                 ELSE IF h.chars # BearerPrefix
                 THEN resp'[w] = ErrorResponse("me", 401, "Invalid Authorization format",
                                               "INVALID_AUTH_FORMAT")
                 ELSE /\ extract_token_from_request(req) = Ok(h.cred)
                      /\ "validate" \in StepsAfter(w)
                      /\ Code(resp'[w]) = "INVALID_TOKEN"
                            <=> ~validate_token(h.cred, jwt_secret, now).ok]_vars

\* /auth/me was asked with "Token ..." while a client holds a valid token
C13_Witness ==
    \E w \in Workers :
        /\ resp[w] = ErrorResponse("me", 401, "Invalid Authorization format",
                                   "INVALID_AUTH_FORMAT")
        /\ ops[w] = <<"extract">>
        /\ wallet # {}

InputCodes ==
    {"PASSWORD_MISMATCH", "INVALID_AUTH_FORMAT", "MISSING_AUTH_HEADER",
     "INVALID_AUTH_HEADER", "INVALID_USER_ID"}

\* C14 as stated: every response that carries one of the input/validation
\* codes has a 4xx status.
C14_InputCodesAreClientErrors ==
    \A w \in Workers :
        Code(resp[w]) \in InputCodes => resp[w].status \in 400..499

\* the response carries an Error Record
Failed(rsp) == DOMAIN rsp.body = {"message", "code"}

\* the status the endpoint table gives a flow's outcome
EndpointTable(flow, failed, code) ==
    IF flow = "register"
    THEN IF ~failed THEN 201
         ELSE IF code = "EMAIL_EXISTS" THEN 409
         ELSE IF code = "PASSWORD_MISMATCH" THEN 400
         ELSE 500
    ELSE IF flow = "login"
    THEN IF ~failed THEN 200
         ELSE IF code = "INVALID_CREDENTIALS" THEN 401
         ELSE 500
    ELSE IF ~failed THEN 200
         ELSE IF code = "USER_NOT_FOUND" THEN 404
         ELSE IF code \in {"MISSING_AUTH_HEADER", "INVALID_AUTH_HEADER",
                           "INVALID_AUTH_FORMAT", "INVALID_TOKEN"} THEN 401
         ELSE 500

\* C15: the status of every /auth/register, /auth/login and /auth/me response
\* is the one the endpoint table gives: 201, 409, 400 or 500; 200, 401 or 500;
\* 200, 404, 401 (for the three header codes and INVALID_TOKEN) or 500.
C15_StatusMapping ==
    \A w \in Workers :
        resp[w].flow \in {"register", "login", "me"}
        => resp[w].status =
             EndpointTable(resp[w].flow, Failed(resp[w]),
                           IF Failed(resp[w]) THEN resp[w].body.code ELSE "")

\* /auth/me answered 404 for a token whose user is gone
C15_Witness ==
    \E w \in Workers :
        /\ resp[w].flow = "me" /\ resp[w].status = 404
        /\ Failed(resp[w]) /\ resp[w].body.code = "USER_NOT_FOUND"

ErrorCodes ==
    {"PASSWORD_MISMATCH", "INVALID_AUTH_FORMAT", "MISSING_AUTH_HEADER",
     "INVALID_AUTH_HEADER", "INVALID_USER_ID", "INVALID_CREDENTIALS", "INVALID_TOKEN",
     "EMAIL_EXISTS", "USER_NOT_FOUND", "DB_CONNECTION_ERROR", "DB_QUERY_ERROR",
     "USER_CREATION_ERROR", "HASH_ERROR", "VERIFICATION_ERROR", "TOKEN_ERROR"}

\* the response is the success body of its flow
Succeeded(rsp) ==
    IF rsp.flow = "me"
    THEN rsp.status = 200 /\ DOMAIN rsp.body = {"id", "first_name", "last_name", "email"}
    ELSE /\ rsp.status = IF rsp.flow = "register" THEN 201 ELSE 200
         /\ DOMAIN rsp.body = {"token", "token_type", "expires_in", "user"}

\* C16: every register, login and me call ends with a response, whatever fails
\* on the way; a response that is not the success body of its flow carries an
\* Error Record (message and code) whose code is one of the fifteen codes of
\* the fixed set, with an error status; and two failures of one flow with the
\* same code have the same status.
C16_CodesFromFixedSet ==
    [][\A w \in Workers :
         /\ (pc'[w] = "done" /\ pc[w] # "done") => resp'[w] # NoResponse
         /\ (resp'[w].flow \in {"register", "login", "me"} /\ ~Succeeded(resp'[w]))
            => /\ Failed(resp'[w])
               /\ resp'[w].body.code \in ErrorCodes
               /\ resp'[w].status \in 400..599
               /\ (/\ resp[w].flow = resp'[w].flow
                   /\ Failed(resp[w])
                   /\ resp[w].body.code = resp'[w].body.code)
                  => resp[w].status = resp'[w].status]_vars

\* a login met a stored password that is no bcrypt hash
C16_Witness ==
    \E w \in Workers :
        /\ resp[w] = ErrorResponse("login", 500, "Password verification failed",
                                   "VERIFICATION_ERROR")
        /\ ops[w] = <<"conn", "lookup", "verify">>

\* C17: a login is answered with a token envelope only when a row with
\* exactly the given email exists and verify_password of the given password
\* against that row's stored hash returned true, and the envelope is that
\* row's; with the lookup done, a verification that errors gives
\* VERIFICATION_ERROR and one that returns false gives INVALID_CREDENTIALS,
\* and neither call gets as far as generating a token.
C17_LoginSafety ==
    [][\A w \in Workers, data \in LoginRequests,
         fault \in {"none", "conn", "query", "enc"}, d \in Drift :
         (resp'[w].flow = "login" /\ Login(w, data, fault, d))
         => /\ Envelope(resp'[w])
               => \E u \in users :
                     /\ u.email = data.email
                     /\ verify_password(data.password, u.password) = Ok(TRUE)
                     /\ resp'[w].body.user = UserInfo(u)
                     /\ resp'[w].body.token.claims.sub = UuidToString(u.id)
            /\ \A u \in users :
                  (u.email = data.email /\ fault \notin {"conn", "query"})
                  => LET is_valid == verify_password(data.password, u.password) IN
                     /\ ~is_valid.ok
                        => resp'[w] = ErrorResponse("login", 500,
                                                    "Password verification failed",
                                                    "VERIFICATION_ERROR")
                     /\ (is_valid.ok /\ ~is_valid.val)
                        => resp'[w] = ErrorResponse("login", 401, "Invalid credentials",
                                                    "INVALID_CREDENTIALS")
                     /\ (~is_valid.ok \/ ~is_valid.val)
                        => /\ "token" \notin StepsAfter(w)
                           /\ ~Envelope(resp'[w])]_vars

\* beside a row whose password cannot be verified, a registered user logged
\* in and was sent an envelope
C17_Witness ==
    \E w \in Workers :
        /\ resp[w].flow = "login" /\ Envelope(resp[w])
        /\ LegacyUser \in users
        /\ \E u \in users : u # LegacyUser /\ resp[w].body.user = UserInfo(u)

\* C18: at every instant before its expiry, whatever registrations, logins,
\* logouts and other requests were served since it was issued, a token a
\* client holds from an earlier registration or login validates:
\* validate_token accepts it, the middleware
\* lets a request that carries it through to the handler with its claims in
\* the context, and get_current_user gets past its validation.
C18_NoSessionState ==
    [][\A tok \in wallet :
         now < tok.claims.exp
         => /\ validate_token(tok, jwt_secret, now) = Ok(tok.claims)
            /\ \A w \in Workers :
                  (/\ ops'[w] = <<"gate">> /\ now' = now /\ pc'[w] # pc[w]
                   /\ Middleware(w, BearerRequest(tok)))
                  => (pc'[w] = "handler" /\ ext'[w] = {tok.claims})
            /\ \A w \in Workers :
                  (/\ (resp'[w].flow = "me" \/ pc'[w] = "me_lookup")
                   /\ now' = now /\ wallet' = wallet
                   /\ MeBegin(w, BearerRequest(tok)))
                  => /\ Code(resp'[w]) # "INVALID_TOKEN"
                     /\ "parse" \in StepsAfter(w)]_vars

\* /auth/logout was answered while a client holds a token that was issued
\* earlier, to a user who registered since the server started, and has not
\* expired
C18_Witness ==
    \E w \in Workers :
        /\ resp[w].flow = "logout" /\ resp[w].status = 200
        /\ \E tok \in wallet :
              /\ tok.claims.iat < now /\ now < tok.claims.exp
              /\ tok.claims.email = "jane@example.com"

\* C19: when /auth/me is asked with a token that validates and whose subject
\* parses to an id, and the connection and the lookup work: if no row of the
\* users table has that id when the lookup runs the answer is 404
\* USER_NOT_FOUND, and otherwise it is 200 with the projection of the row
\* that has that id, never another row. The lookup runs with the id parsed
\* from the subject of the token that was validated, for exactly the requests
\* whose token validates and names an id, whatever other requests are served
\* and however the clock moves between the validation and the lookup.
C19_UserNotFound ==
    [][/\ \A w \in Workers :
            (pc'[w] = "me_lookup" /\ pc[w] # "me_lookup")
            => \A req \in MeRequests :
                  MeBegin(w, req)
                  => LET token == extract_token_from_request(req).val
                         sub == validate_token(token, jwt_secret, now).val.sub
                     IN  /\ Authenticates(req)
                         /\ loc'[w] = [token |-> token,
                                       user_id |-> UuidParseStr(sub).val]
       /\ \A w \in Workers :
            (pc[w] # "me_lookup" /\ pc'[w] = "done" /\ resp'[w].flow = "me")
            => \A req \in MeRequests : MeBegin(w, req) => ~Authenticates(req)
       /\ \A w \in Workers :
            (pc[w] = "me_lookup" /\ MeFinish(w, "none"))
            => LET user_id == loc[w].user_id IN
               IF \A u \in users : u.id # user_id
               THEN resp'[w] = ErrorResponse("me", 404, "User not found",
                                             "USER_NOT_FOUND")
               ELSE /\ resp'[w].status = 200
                    /\ resp'[w].body.id = user_id
                    /\ \E u \in users : u.id = user_id /\ resp'[w].body = UserInfo(u)]_vars

\* /auth/me was asked with the token of a deleted user while other users exist
C19_Witness ==
    \E w \in Workers :
        /\ resp[w] = ErrorResponse("me", 404, "User not found", "USER_NOT_FOUND")
        /\ ops[w] = <<"extract", "validate", "parse", "conn", "lookup">>
        /\ users # {}
        /\ \E tok \in wallet : \A u \in users : UuidToString(u.id) # tok.claims.sub

\* the worker is serving a request or waiting for one
InRequest(w) ==
    pc[w] \in {"idle", "done", "reg_insert", "reg_token", "me_lookup", "handler"}

\* C20: from the start of the process on, JWT_SECRET is never written; a
\* worker takes calls only when the value passed the startup validation, so
\* it is set and has at least 32 characters; every token that generate_token
\* or a login issues is signed with that value and never with the built-in
\* fallback; and validate_token accepts every HS256 token signed with that
\* value that has not expired, and rejects every token signed with the
\* fallback.
C20_OneSecret ==
    [][/\ jwt_secret' = jwt_secret
       /\ \A w \in Workers :
            InRequest(w)
            => /\ get_jwt_secret(jwt_secret).ok
               /\ Len(GetSecret(jwt_secret)) >= 32
               /\ GetSecret(jwt_secret) = get_jwt_secret(jwt_secret).val
               /\ GetSecret(jwt_secret) # FallbackSecret
       /\ \A w \in Workers :
            /\ (resp'[w].flow = "generate_token" /\ resp'[w].body.ok)
               => /\ resp'[w].body.val.sig.key = get_jwt_secret(jwt_secret).val
                  /\ resp'[w].body.val.sig.key # FallbackSecret
            /\ Envelope(resp'[w])
               => /\ resp'[w].body.token.sig.key = get_jwt_secret(jwt_secret).val
                  /\ resp'[w].body.token.sig.key # FallbackSecret
       /\ \A w \in Workers, token \in Presentable :
            ValidateTokenCall(w, token)
            => /\ (/\ CorrectlySigned(token, jwt_secret)
                   /\ token.header.alg = "HS256"
                   /\ now <= token.claims.exp)
                  => resp'[w].body.result.ok
               /\ CorrectlySigned(token, {})
                  => ~resp'[w].body.result.ok]_vars

\* a server started with another secret that passes the validation has issued
\* a token signed with it, and a client holds a token
C20_Witness ==
    \E w \in Workers :
        /\ jwt_secret # {ServerSecret}
        /\ resp[w].flow = "generate_token" /\ resp[w].body.ok
        /\ resp[w].body.val.sig.key = GetSecret(jwt_secret)
        /\ wallet # {}

\* C21 as stated: verify_password of a password against the hash that
\* hash_password made returns the value true when it is the password that was
\* hashed, and the value false, not an error, when it is any other password.
C21_HashRoundTrip ==
    \A w \in Workers :
        resp[w].flow = "verify_password"
        => resp[w].body.result = Ok(resp[w].body.password = resp[w].body.hashed)

Builds(w) == Cardinality({i \in DOMAIN ops[w] : ops[w][i] = "build"})
Sleeps(w) == Cardinality({i \in DOMAIN ops[w] : ops[w][i] = "sleep"})

\* C22: the pool constructor, called by main with max_retries = 5, makes at
\* most max_retries build attempts; it ends either by returning the pool, right
\* after the first build that succeeds, or by the abort that follows the
\* max_retries-th failed build; it has slept after every failed build but the
\* last; and a worker takes requests only when main holds a pool.
C22_BoundedPoolConstruction ==
    /\ \A m \in Workers :
          /\ pc[m] = "pool"
             => /\ Builds(m) = loc[m].attempt - 1
                /\ Builds(m) <= loc[m].max_retries
                /\ Sleeps(m) = Builds(m)
          /\ resp[m].flow = "pool"
             => LET max_retries == resp[m].body.max_retries IN
                /\ Builds(m) <= max_retries
                /\ Sleeps(m) = Builds(m) - 1
                /\ IF resp[m].body.result.ok
                   THEN pc[m] \in {"main", "serving"}
                   ELSE /\ pc[m] = "aborted"
                        /\ Builds(m) = max_retries
                        /\ resp[m].body.result = Err("Failed to create connection pool")
    /\ (\E w \in Workers : InRequest(w))
       => \E m \in Workers :
             /\ pc[m] = "serving"
             /\ resp[m].flow = "pool" /\ resp[m].body.result = Ok("pool")

\* the pool was returned by the last attempt that main allows, after a sleep
\* behind each of the failed ones, and the server has answered a request
C22_Witness ==
    \E m \in Workers, w \in Workers :
        /\ pc[m] = "serving" /\ resp[m].flow = "pool"
        /\ Builds(m) = DefaultRetries /\ Sleeps(m) = DefaultRetries - 1
        /\ pc[w] = "done" /\ resp[w].flow = "login"

IncomeWrites ==
    {call \in HandlerCalls : call.scope = "incomes" /\ call.kind \in {"update", "delete"}}

\* C23: an update or a delete of an income row that exists is carried out
\* for every request that got past the middleware, whatever user its claims
\* name: the answer is 200 and the row is changed or removed, the row's
\* user_id never being compared with the caller; so a caller authenticated
\* as one user changes a row that belongs to another.
C23_NoOwnershipCheck ==
    [][\A w \in Workers :
         (pc[w] = "handler" /\ pc'[w] = "done")
         => \A call \in IncomeWrites :
               (/\ \E x \in ledger["incomes"] : x.id = call.id
                /\ Handler(w, call, "none"))
               => LET x == CHOOSE y \in ledger["incomes"] : y.id = call.id IN
                  /\ resp'[w] = Response(call.kind, 200, None)
                  /\ ledger'["incomes"] =
                        IF call.kind = "update"
                        THEN (ledger["incomes"] \ {x})
                                 \cup {[x EXCEPT !.label = call.label]}
                        ELSE ledger["incomes"] \ {x}]_vars

\* a request whose claims name one user has updated the income row of another
C23_Witness ==
    \E w \in Workers :
        /\ pc[w] = "done"
        /\ resp[w] = Response("update", 200, None)
        /\ ops[w] = <<"gate", "handler">>
        /\ Caller(w).ok
        /\ \E a \in users, b \in users, x \in ledger["incomes"] :
              /\ a.id = Caller(w).val
              /\ b.id = x.user_id
              /\ a # b

RegisterOrder == <<"conn", "compare", "lookup", "hash", "insert", "token">>

\* the steps of RegisterOrder up to and including step
UpTo(step) ==
    SubSeq(RegisterOrder, 1, CHOOSE i \in DOMAIN RegisterOrder : RegisterOrder[i] = step)

\* the call of worker w ends in this step with this code, having run the steps
\* up to `step` and nothing after it
FailsAt(w, step, code) ==
    /\ pc'[w] = "done"
    /\ Code(resp'[w]) = code
    /\ ops'[w] = UpTo(step)

\* C24: the steps of a register_user call are, in this order, conn, compare,
\* lookup, hash, insert, token; what the call has executed is always an
\* initial part of that sequence; the first step that fails ends the call with
\* its code (DB_CONNECTION_ERROR, PASSWORD_MISMATCH, DB_QUERY_ERROR or
\* EMAIL_EXISTS, HASH_ERROR, USER_CREATION_ERROR, TOKEN_ERROR) and no later
\* step runs. With a connection, mismatched passwords give PASSWORD_MISMATCH
\* also when the email is registered; a hashing failure leaves the users table
\* as it was.
C24_RegisterStepOrder ==
    [][/\ \A w \in Workers, data \in RegisterRequests, fault \in {"none", "conn", "query"} :
            (resp'[w].flow \in {"register", "none"} /\ RegisterBegin(w, data, fault))
            => IF fault = "conn" THEN FailsAt(w, "conn", "DB_CONNECTION_ERROR")
               ELSE IF data.password # data.confirm_password
               THEN FailsAt(w, "compare", "PASSWORD_MISMATCH")
               ELSE IF fault = "query" THEN FailsAt(w, "lookup", "DB_QUERY_ERROR")
               ELSE IF ~NoRecord(data.email) THEN FailsAt(w, "lookup", "EMAIL_EXISTS")
               ELSE pc'[w] = "reg_insert" /\ ops'[w] = UpTo("lookup")
       /\ \A w \in Workers :
            (pc[w] = "reg_insert" /\ pc'[w] \in {"reg_token", "done"})
            => \A salt \in Salts, id \in UuidPool,
                  fault \in {"none", "rng", "insert"}, d \in Drift :
                  RegisterInsert(w, salt, id, fault, d)
                  => /\ ops[w] = UpTo("lookup")
                     /\ IF fault = "rng"
                        THEN FailsAt(w, "hash", "HASH_ERROR") /\ users' = users
                        ELSE IF \/ fault = "insert"
                                \/ \E u \in users : u.id = id \/ u.email = loc[w].email
                        THEN FailsAt(w, "insert", "USER_CREATION_ERROR")
                        ELSE pc'[w] = "reg_token" /\ ops'[w] = UpTo("insert")
       /\ \A w \in Workers :
            (pc[w] = "reg_token" /\ pc'[w] = "done")
            => \A fault \in {"none", "enc"}, d \in Drift :
                  RegisterToken(w, fault, d)
                  => /\ ops[w] = UpTo("insert")
                     /\ IF fault = "enc" THEN FailsAt(w, "token", "TOKEN_ERROR")
                        ELSE /\ resp'[w].status = 201
                             /\ ops'[w] = RegisterOrder]_vars

\* with a user registered already, a registration ended at the hashing step
C24_Witness ==
    \E w \in Workers :
        /\ resp[w] = ErrorResponse("register", 500, "Password hashing failed", "HASH_ERROR")
        /\ ops[w] = <<"conn", "compare", "lookup", "hash">>
        /\ users # {}

\* C25 as stated: the claims of every token generate_token returns have
\* exp = iat + 86400 exactly, whenever the clock is read during the call, and
\* the expires_in of every envelope is exp - iat of its token.
C25_ExpiryFromIssuedAt ==
    \A w \in Workers :
        /\ (resp[w].flow = "generate_token" /\ resp[w].body.ok)
           => resp[w].body.val.claims.exp = resp[w].body.val.claims.iat + 86400
        /\ Envelope(resp[w])
           => resp[w].body.expires_in
                  = resp[w].body.token.claims.exp - resp[w].body.token.claims.iat

\* C26 as stated: a register_user call that returns an error, whatever its
\* code, leaves the users table exactly as it was before the call; and a call
\* adds a row only when it returns a token envelope. Step by step: the checks
\* and a failing hash or insert leave the table alone, and when the call
\* returns after its insert, the row it inserted is in the table only under an
\* envelope.
C26_FailureAtomicity ==
    [][/\ \A w \in Workers, data \in RegisterRequests, fault \in {"none", "conn", "query"} :
            (resp'[w].flow \in {"register", "none"} /\ RegisterBegin(w, data, fault))
            => users' = users
       /\ \A w \in Workers :
            (pc[w] = "reg_insert" /\ pc'[w] = "done")
            => \A salt \in Salts, id \in UuidPool,
                  fault \in {"none", "rng", "insert"}, d \in Drift :
                  RegisterInsert(w, salt, id, fault, d)
                  => (Failed(resp'[w]) /\ users' = users)
       /\ \A w \in Workers :
            (pc[w] = "reg_token" /\ pc'[w] = "done")
            => \A fault \in {"none", "enc"}, d \in Drift :
                  RegisterToken(w, fault, d)
                  => /\ Failed(resp'[w]) => loc[w] \notin users'
                     /\ loc[w] \in users' => Envelope(resp'[w])]_vars

\* C27 as stated: of two register_user calls with matching passwords and the
\* same unused email that run side by side, the one that comes to its insert
\* after the other has created the user is answered 409 EMAIL_EXISTS, never
\* 500 USER_CREATION_ERROR, and never with an envelope of its own.
C27_LoserGetsEmailExists ==
    [][\A w \in Workers :
         (pc[w] = "reg_insert" /\ pc'[w] = "done")
         => \A salt \in Salts, id \in UuidPool, d \in Drift :
               (/\ RegisterInsert(w, salt, id, "none", d)
                /\ \E u \in users : u.email = loc[w].email)
               => /\ resp'[w] = ErrorResponse("register", 409, "Email already exists",
                                              "EMAIL_EXISTS")
                  /\ users' = users]_vars

\* C28: the users table changes only in the insert step of a register_user
\* call, by gaining the one row of that registration; login_user,
\* get_current_user, logout, validate_token and the jwt_validator middleware
\* leave it as it is on every outcome, and no step removes or alters a row
\* that exists.
C28_StoreWrittenOnlyByInsert ==
    [][/\ users' # users
          => \E w \in Workers :
                /\ pc[w] = "reg_insert" /\ pc'[w] = "reg_token"
                /\ ops'[w] = UpTo("insert")
                /\ \E row \in users' \ users :
                      /\ users' = users \cup {row}
                      /\ row.email = loc[w].email
                      /\ row = loc'[w]
       /\ \A w \in Workers :
             (/\ resp'[w].flow \in {"login", "me", "logout", "gate", "validate_token"}
              /\ resp'[w] # resp[w])
             => users' = users
       /\ users \subseteq users']_vars

\* a user who registered and holds a token has logged out; the row is there
C28_Witness ==
    \E w \in Workers :
        /\ resp[w].flow = "logout" /\ pc[w] = "done"
        /\ \E tok \in wallet, u \in users : UuidToString(u.id) = tok.claims.sub

\* C29: the sub claim of every token that register and login issue through
\* generate_token is the string form of the user's id and parses back to that
\* id; a /auth/me request with a token a client was issued never ends with
\* INVALID_USER_ID; and when a request does end with that code, its token is
\* correctly signed and its subject is the string form of no id.
C29_SubjectRoundTrip ==
    [][\A w \in Workers :
         /\ Envelope(resp'[w])
            => /\ resp'[w].body.token.claims.sub = UuidToString(resp'[w].body.user.id)
               /\ UuidParseStr(resp'[w].body.token.claims.sub)
                     = Ok(resp'[w].body.user.id)
         /\ ((resp'[w].flow = "me" \/ pc'[w] = "me_lookup")
                /\ now' = now /\ wallet' = wallet)
            => \A req \in MeRequests :
                  MeBegin(w, req)
                  => LET token == extract_token_from_request(req) IN
                     /\ (token.ok /\ token.val \in wallet)
                        => Code(resp'[w]) # "INVALID_USER_ID"
                     /\ Code(resp'[w]) = "INVALID_USER_ID"
                        => /\ token.ok
                           /\ CorrectlySigned(token.val, jwt_secret)
                           /\ \A id \in UuidPool :
                                 token.val.claims.sub # UuidToString(id)
         /\ (pc[w] = "me_lookup" /\ resp'[w].flow = "me")
            => Code(resp'[w]) # "INVALID_USER_ID"]_vars

\* while a client holds an issued token, a request with a correctly signed
\* token whose subject is no uuid ended with INVALID_USER_ID
C29_Witness ==
    \E w \in Workers :
        /\ Code(resp[w]) = "INVALID_USER_ID"
        /\ ops[w] = <<"extract", "validate", "parse">>
        /\ \E tok \in wallet : UuidParseStr(tok.claims.sub).ok

====
